---- MODULE Spec2Model ----
(***************************************************************************)
(* State-machine model of the DAG scheduler of QUADManager                 *)
(* (src/src/ruvnet-ecosystem/orchestration/quad-manager.js) and of the     *)
(* swarm manager SwarmManager (src/unnamed/part_002).                      *)
(*                                                                         *)
(* One graph id is registered in the manager.  A run is one call of        *)
(* executeDAG (sequential) or executeParallel (waves).  The caller awaits  *)
(* a run before starting the next one, but handlers started by a rejected  *)
(* parallel run stay in flight and settle later.  The optional @ruv/qdag   *)
(* package is absent (initialize() leaves this.qdag = null), so executeDAG *)
(* takes the built-in topological-sort path.                               *)
(*                                                                         *)
(* The swarm half has one swarm id, its roster and connection lists, the   *)
(* dispatch of a task over the roster (executeTask) and the majority vote  *)
(* achieveConsensus.  Swarm operations are awaited one at a time.  Agent   *)
(* ids are fresh: an agent's id is its position in the roster.  The        *)
(* optional ruv-swarm package is absent (this.ruvSwarm = null).            *)
(*                                                                         *)
(* The solver half follows single calls of the searches and of the         *)
(* shortest-path solver of SolversManager                                  *)
(* (src/src/ruvnet-ecosystem/solvers/strange-loops-manager.js), whose      *)
(* optional packages are absent too (sublinearSolver and bmssp are null).  *)
(* The same manager's backtracking constraint solver, count-min sketch and *)
(* gradient-descent loop are followed one call at a time as well.          *)
(*                                                                         *)
(* The gateway half follows one MCPGatewayClient and its _fetch retry loop *)
(* (src/src/gateway/mcp-gateway-client.js): each attempt either yields a   *)
(* parsable body, an ok response whose body does not parse, or a failure.  *)
(***************************************************************************)
EXTENDS Integers, Sequences, FiniteSets, TLC

\* ---------------------------------------------------------------- bounds
MaxNodes == 3
MaxEdges == 2
MaxRuns == 2

\* Node ids a graph spec may use; NoHandlerIds are declared without a handler
\* (structural pass-through nodes), every other id carries an async handler.
NodeIds == 1..MaxNodes
NoHandlerIds == {1}

ToSet(s) == {s[i] : i \in DOMAIN s}
SeqsUpTo(S, k) == UNION {[1..m -> S] : m \in 0..k}

\* Graph specifications handed to createDAG / executeDAG.
EdgeRecords == [from : NodeIds, to : NodeIds]
\* spec.nodes: every order of distinct ids, and the same re-declaring its first id.
DistinctLists == {s \in SeqsUpTo(NodeIds, MaxNodes) :
                     \A i \in DOMAIN s : \A j \in DOMAIN s : i # j => s[i] # s[j]}
NodeLists == DistinctLists \cup
             {Append(s, s[1]) : s \in {t \in DistinctLists : t # <<>> /\ Len(t) < MaxNodes}}
GraphSpecs == [nodes : NodeLists, edges : SeqsUpTo(EdgeRecords, MaxEdges)]

\* dag.results.get(k) of a missing key.
Undefined == [nodeId |-> 0, inputs |-> <<>>]
NoError == [kind |-> "none", node |-> 0]
NoneSettled == [kind |-> "none", node |-> 0, run |-> 0]

VARIABLES
    dags,            \* this.dags has the graph id
    nodes,           \* keys of dag.nodes, in insertion order
    edges,           \* dag.edges
    dependencies,    \* node.dependencies of every node
    dependents,      \* node.dependents of every node
    dagState,        \* dag.state
    nodeState,       \* node.state of every node
    nodeError,       \* node.error of every node
    results,         \* dag.results (a map: its domain is the set of keys)
    runId,           \* number of executeDAG / executeParallel calls so far
    mode,            \* "seq" (executeDAG) or "par" (executeParallel)
    pc,              \* "idle", "running", "returned", "rejected"
    executionOrder,  \* executeDAG: the topological order
    idx,             \* executeDAG: position of the for-of loop
    completed,       \* executeParallel: local set
    inProgress,      \* executeParallel: local set
    ready,           \* executeParallel: the wave being awaited
    error,           \* the error the run rejected with
    returned,        \* the value the run resolved with
    inflight,        \* handler invocations not yet settled
    threw,           \* a handler has thrown since the run started
    lastSettled      \* the invocation the last step settled, and how

VARIABLES
    swarms,          \* this.swarms has the swarm id
    topology,        \* swarm.topology
    agents,          \* swarm.agents: the agent ids, in roster order
    coordinator,     \* swarm.coordinator (0 is null)
    swarmState,      \* swarm.state
    swarmConfig,     \* swarm.config: maxAgents, consensusThreshold (in tenths)
    swarmMetrics,    \* swarm.metrics: tasksCompleted, consensusReached
    metrics,         \* this.metrics: swarmsCreated, tasksExecuted, consensusReached
    connections,     \* agent.connections of every agent
    agentState,      \* agent.state of every agent
    agentTasks,      \* agent.metrics.tasksCompleted of every agent
    lastOp,         \* the last createSwarm / addAgent call and the error it threw
    taskId,          \* number of executeTask calls so far
    phase,           \* where the dispatch of executeTask stands
    calls,           \* executeAgentTask calls whose fetch has not settled
    slots,           \* values the awaited executeAgentTask calls resolved with
    failures,        \* slots of the calls whose fetch threw or was not ok
    subtasks,        \* executeHierarchical: number of subtasks
    taskReturned,    \* what executeTask resolved with
    taskError,       \* what executeTask rejected with
    consensusArgs,   \* arguments of the last achieveConsensus call
    consensus        \* what the last achieveConsensus call returned

\* SolversManager (solvers/strange-loops-manager.js): the searches and the
\* shortest-path solver keep no state between calls; the variables hold the
\* arguments and the outcome of the last call.
VARIABLES
    searchCall,      \* [algorithm, data, target] of the last search
    searchResult,    \* its outcome
    pathsComputed,   \* metrics.pathsComputed
    pathCall,        \* the problem of the last solveBMSSP call
    pathResult,      \* the value it resolved with
    cspCall,         \* the problem of the last solveConstraint call
    cspResult,       \* the value it resolved with
    sketchCall,      \* the data of the last countMinSketch call and the item queried
    sketchResult,    \* what query(item) returned
    optCall,         \* maxIterations and tolerance of the solveOptimization call
    optPhase,        \* "idle", "loop" or "done"
    gradNorms,       \* the gradient norm of each iteration run so far
    optResult        \* what solveOptimization resolved with

\* MCPGatewayClient (gateway/mcp-gateway-client.js): one _fetch call at a time.
VARIABLES
    client,          \* this.retries, this.retryDelay
    fetchPhase,      \* "idle", "attempt", "sleep", "returned" or "threw"
    attempt,         \* the loop variable of _fetch
    outcomes,        \* how each attempt of the call ended, in order
    sleeps,          \* the delays slept by the call, in order
    fetchResult      \* what the call resolved or rejected with

dagVars == <<dags, nodes, edges, dependencies, dependents>>
stateVars == <<dagState, nodeState, nodeError, results>>
runVars == <<runId, mode, pc, executionOrder, idx, completed, inProgress, ready, error, returned>>
swarmVars == <<swarms, topology, agents, coordinator, swarmState, swarmConfig,
               swarmMetrics, metrics>>
agentVars == <<connections, agentState, agentTasks>>
taskVars == <<taskId, phase, calls, slots, failures, subtasks, taskReturned, taskError>>
callVars == <<consensusArgs, consensus>>
\* State of the swarm manager, which no DAG operation touches.
swarmSide == <<swarmVars, agentVars, lastOp, taskVars, callVars>>
\* State of the DAG scheduler, which no swarm operation touches.
dagSide == <<dagVars, stateVars, runVars, inflight, threw, lastSettled>>
\* State of the solvers, which neither touches.
searchVars == <<searchCall, searchResult>>
pathVars == <<pathsComputed, pathCall, pathResult>>
cspVars == <<cspCall, cspResult>>
sketchVars == <<sketchCall, sketchResult>>
optVars == <<optCall, optPhase, gradNorms, optResult>>
solverSide == <<searchVars, pathVars, cspVars, sketchVars, optVars>>
\* State of the gateway client.
clientSide == <<client, fetchPhase, attempt, outcomes, sleeps, fetchResult>>
vars == <<dagSide, swarmSide, solverSide, clientSide>>
outsideDag == <<swarmSide, solverSide, clientSide>>
outsideSwarm == <<dagSide, solverSide, clientSide>>

Declared == ToSet(nodes)

MapSet(m, k, v) == [x \in (DOMAIN m) \cup {k} |-> IF x = k THEN v ELSE m[x]]

\* ------------------------------------------------------------- createDAG
\* dag.nodes.set(node.id, ...): a repeated id keeps its first position.
RECURSIVE AddNodes(_, _)
AddNodes(specNodes, keys) ==
    IF specNodes = <<>> THEN keys
    ELSE AddNodes(Tail(specNodes),
                  IF Head(specNodes) \in ToSet(keys) THEN keys
                  ELSE Append(keys, Head(specNodes)))

\* Fault variant of EdgeLinks: only fromNode is tested.
EdgeLinksFromOnly(edge, declared) == edge.from \in declared

\* if (fromNode && toNode)
EdgeLinks(edge, declared) == edge.from \in declared /\ edge.to \in declared

\* Fault variant of PushDependent: edge.from is pushed instead of edge.to.
PushDependentOfFrom(deps, edge) ==
    IF edge.from \in DOMAIN deps THEN [deps EXCEPT ![edge.from] = Append(@, edge.from)] ELSE deps

\* toNode.dependencies.push(edge.from)
PushDependency(deps, edge) ==
    IF edge.to \in DOMAIN deps THEN [deps EXCEPT ![edge.to] = Append(@, edge.from)] ELSE deps

\* fromNode.dependents.push(edge.to)
PushDependent(deps, edge) ==
    IF edge.from \in DOMAIN deps THEN [deps EXCEPT ![edge.from] = Append(@, edge.to)] ELSE deps

RECURSIVE AddEdges(_, _, _)
AddEdges(specEdges, declared, acc) ==
    IF specEdges = <<>> THEN acc
    ELSE LET edge == Head(specEdges)
             next == IF EdgeLinks(edge, declared)
                     THEN [dependencies |-> PushDependency(acc.dependencies, edge),
                           dependents |-> PushDependent(acc.dependents, edge)]
                     ELSE acc
         IN AddEdges(Tail(specEdges), declared, next)

createDAG(spec) ==
    LET keys == AddNodes(spec.nodes, <<>>)
        declared == ToSet(keys)
        empty == [n \in declared |-> <<>>]
        links == AddEdges(spec.edges, declared, [dependencies |-> empty, dependents |-> empty])
    IN [nodes |-> keys,
        edges |-> spec.edges,
        dependencies |-> links.dependencies,
        dependents |-> links.dependents]

\* The assignments of createDAG: the graph is registered with every node pending.
Register(spec) ==
    LET dag == createDAG(spec)
    IN /\ dags' = TRUE
       /\ nodes' = dag.nodes
       /\ edges' = dag.edges
       /\ dependencies' = dag.dependencies
       /\ dependents' = dag.dependents
       /\ nodeState' = [n \in ToSet(dag.nodes) |-> "pending"]
       /\ nodeError' = [n \in ToSet(dag.nodes) |-> "none"]
       /\ results' = <<>>

\* ------------------------------------------------------- topologicalSort
RECURSIVE visit(_, _, _)
RECURSIVE visitAll(_, _, _)
\* Fault variant of visit: the node is emitted before its dependencies.
visitPreOrder(nodeId, st, deps) ==
    IF nodeId \in st.visited THEN st
    ELSE visitAll(deps[nodeId],
                  [visited |-> st.visited \cup {nodeId}, result |-> Append(st.result, nodeId)],
                  deps)

visit(nodeId, st, deps) ==
    IF nodeId \in st.visited THEN st
    ELSE LET after == visitAll(deps[nodeId],
                               [visited |-> st.visited \cup {nodeId}, result |-> st.result],
                               deps)
         IN [visited |-> after.visited, result |-> Append(after.result, nodeId)]

visitAll(ids, st, deps) ==
    IF ids = <<>> THEN st
    ELSE visitAll(Tail(ids), visit(Head(ids), st, deps), deps)

\* Fault variant of topologicalSort: the declaration order, unsorted.
declarationOrder(keys, deps) == keys

topologicalSort(keys, deps) ==
    visitAll(keys, [visited |-> {}, result |-> <<>>], deps).result

\* ----------------------------------------------------------- executeNode
HasHandler(nodeId) == nodeId \notin NoHandlerIds

\* Fault variant of DepsNotCompleted: the dependency check is skipped.
DepsCompletedUnchecked(nodeId) == {}

\* Lines 188-193: the dependencies whose state is not 'completed'.
DepsNotCompleted(nodeId) ==
    {d \in ToSet(dependencies[nodeId]) : nodeState[d] # "completed"}

\* The dependency the check of line 190 throws for: the first one in order.
FirstNotCompleted(nodeId) ==
    LET ds == dependencies[nodeId]
        first == CHOOSE k \in DOMAIN ds :
                     /\ ds[k] \in DepsNotCompleted(nodeId)
                     /\ \A j \in 1..(k - 1) : ds[j] \notin DepsNotCompleted(nodeId)
    IN ds[first]

\* Fault variant of GatherInputs: the results map is not read.
GatherInputsUnread(nodeId) == [d \in ToSet(dependencies[nodeId]) |-> Undefined]

\* Lines 200-203: inputs[depId] = dag.results.get(depId).
GatherInputs(nodeId) ==
    [d \in ToSet(dependencies[nodeId]) |->
        IF d \in DOMAIN results THEN results[d] ELSE Undefined]

\* The value a node produces from its inputs (line 213 for a pass-through
\* node; a deterministic handler for the others).
NodeResult(nodeId, inputs) == [nodeId |-> nodeId, inputs |-> inputs]

Invocation(nodeId) == [run |-> runId, node |-> nodeId, inputs |-> GatherInputs(nodeId)]

\* The invocations the current run is awaiting.
Awaited == {a \in inflight : a.run = runId /\ pc = "running"}

Settled == pc \in {"idle", "returned", "rejected"}

\* ------------------------------------------------------------ operations
InitDag ==
    /\ dags = FALSE
    /\ nodes = <<>>
    /\ edges = <<>>
    /\ dependencies = <<>>
    /\ dependents = <<>>
    /\ dagState = "none"
    /\ nodeState = <<>>
    /\ nodeError = <<>>
    /\ results = <<>>
    /\ runId = 0
    /\ mode = "none"
    /\ pc = "idle"
    /\ executionOrder = <<>>
    /\ idx = 1
    /\ completed = {}
    /\ inProgress = {}
    /\ ready = <<>>
    /\ error = NoError
    /\ returned = <<>>
    /\ inflight = {}
    /\ threw = FALSE
    /\ lastSettled = NoneSettled

\* createDAG(spec), lines 59-103.
CreateDAG ==
    /\ ~dags
    /\ pc = "idle"
    /\ \E spec \in GraphSpecs : Register(spec)
    /\ dagState' = "created"
    /\ lastSettled' = NoneSettled
    /\ UNCHANGED outsideDag
    /\ UNCHANGED <<runVars, inflight, threw>>

\* Lines 121-134: dag.state = 'running' and the topological order.
StartSequential(keys, deps) ==
    /\ dagState' = "running"
    /\ runId' = runId + 1
    /\ mode' = "seq"
    /\ pc' = "running"
    /\ executionOrder' = topologicalSort(keys, deps)
    /\ idx' = 1
    /\ error' = NoError
    /\ returned' = <<>>
    /\ threw' = FALSE
    /\ lastSettled' = NoneSettled
    /\ UNCHANGED outsideDag
    /\ UNCHANGED <<completed, inProgress, ready, inflight>>

\* executeDAG(spec) with a spec object: createDAG, then the run.
ExecuteDAGSpec ==
    /\ ~dags
    /\ pc = "idle"
    /\ runId < MaxRuns
    /\ \E spec \in GraphSpecs :
          /\ Register(spec)
          /\ StartSequential(createDAG(spec).nodes, createDAG(spec).dependencies)

\* executeDAG(dagId) with the id of the registered graph.
ExecuteDAGId ==
    /\ dags
    /\ Settled
    /\ runId < MaxRuns
    /\ StartSequential(nodes, dependencies)
    /\ UNCHANGED <<dagVars, nodeState, nodeError, results>>

\* executeDAG(dagId) with an id that is not registered: 'DAG not found'.
ExecuteDAGNotFound ==
    /\ ~dags
    /\ pc = "idle"
    /\ runId < MaxRuns
    /\ runId' = runId + 1
    /\ mode' = "seq"
    /\ pc' = "rejected"
    /\ error' = [kind |-> "notfound", node |-> 0]
    /\ lastSettled' = NoneSettled
    /\ UNCHANGED outsideDag
    /\ UNCHANGED <<dagVars, stateVars, executionOrder, idx, completed, inProgress,
                   ready, returned, inflight, threw>>

\* Fault variant of executeDAGCatch: the error is not rethrown.
executeDAGSwallow(err) == [dagState |-> "failed", pc |-> "returned", error |-> NoError]

\* Lines 145-149: the catch of executeDAG marks the graph failed and rethrows.
executeDAGCatch(err) == [dagState |-> "failed", pc |-> "rejected", error |-> err]

\* One iteration of the loop of lines 136-138: executeNode up to its await.
SeqExecuteNode ==
    /\ mode = "seq"
    /\ pc = "running"
    /\ Awaited = {}
    /\ idx <= Len(executionOrder)
    /\ LET nodeId == executionOrder[idx]
       IN IF DepsNotCompleted(nodeId) # {}
          THEN \* line 191 throws, outside the try of executeNode
               LET caught == executeDAGCatch([kind |-> "dependency",
                                              node |-> FirstNotCompleted(nodeId)])
               IN /\ dagState' = caught.dagState
                  /\ pc' = caught.pc
                  /\ error' = caught.error
                  /\ UNCHANGED <<nodeState, nodeError, results, idx, inflight>>
          ELSE IF HasHandler(nodeId)
          THEN /\ nodeState' = [nodeState EXCEPT ![nodeId] = "running"]
               /\ inflight' = inflight \cup {Invocation(nodeId)}
               /\ UNCHANGED <<dagState, nodeError, results, idx, pc, error>>
          ELSE /\ nodeState' = [nodeState EXCEPT ![nodeId] = "completed"]
               /\ results' = MapSet(results, nodeId, NodeResult(nodeId, GatherInputs(nodeId)))
               /\ idx' = idx + 1
               /\ UNCHANGED <<dagState, nodeError, inflight, pc, error>>
    /\ lastSettled' = NoneSettled
    /\ UNCHANGED outsideDag
    /\ UNCHANGED <<dagVars, runId, mode, executionOrder, completed, inProgress, ready,
                   returned, threw>>

\* Lines 140-144: the loop is over.
SeqFinish ==
    /\ mode = "seq"
    /\ pc = "running"
    /\ Awaited = {}
    /\ idx > Len(executionOrder)
    /\ dagState' = "completed"
    /\ pc' = "returned"
    /\ returned' = results
    /\ lastSettled' = NoneSettled
    /\ UNCHANGED outsideDag
    /\ UNCHANGED <<dagVars, nodeState, nodeError, results, runId, mode, executionOrder,
                   idx, completed, inProgress, ready, error, inflight, threw>>

\* ------------------------------------------------------- executeParallel
\* executeParallel(dag), lines 269-270: the local sets.  dag.state is not touched.
ExecuteParallel ==
    /\ dags
    /\ Settled
    /\ runId < MaxRuns
    /\ runId' = runId + 1
    /\ mode' = "par"
    /\ pc' = "running"
    /\ completed' = {}
    /\ inProgress' = {}
    /\ ready' = <<>>
    /\ error' = NoError
    /\ returned' = <<>>
    /\ threw' = FALSE
    /\ lastSettled' = NoneSettled
    /\ UNCHANGED outsideDag
    /\ UNCHANGED <<dagVars, stateVars, executionOrder, idx, inflight>>

\* Fault variant of IsReady: dependencies are not looked at.
IsReadyIgnoringDeps(nodeId) == nodeId \notin completed /\ nodeId \notin inProgress

\* Lines 274-282: the ready list, in the order of dag.nodes.
IsReady(nodeId) ==
    /\ nodeId \notin completed
    /\ nodeId \notin inProgress
    /\ \A d \in ToSet(dependencies[nodeId]) : d \in completed

ReadyNodes == SelectSeq(nodes, IsReady)

\* Fault variant of WaveSettled: the await resumes on the first node (Promise.race).
WaveSettledFirst == ready = <<>> \/ \E n \in ToSet(ready) : n \notin inProgress

\* await Promise.all(...) of lines 295-301 resumes once every node of the wave
\* has been moved from inProgress to completed.
WaveSettled == \A n \in ToSet(ready) : n \notin inProgress

\* One iteration of the while loop of lines 272-303, up to its await.
ParallelWave ==
    /\ mode = "par"
    /\ pc = "running"
    /\ WaveSettled
    /\ IF Cardinality(completed) >= Cardinality(Declared)
       THEN \* the loop ends: executeParallel returns undefined
            /\ pc' = "returned"
            /\ UNCHANGED <<stateVars, completed, inProgress, ready, error, inflight>>
       ELSE LET rdy == ReadyNodes
                wave == ToSet(rdy)
                failing == {n \in wave : DepsNotCompleted(n) # {}}
                handled == {n \in wave \ failing : HasHandler(n)}
                passed == (wave \ failing) \ handled
                firstFailing == CHOOSE k \in DOMAIN rdy :
                                    /\ rdy[k] \in failing
                                    /\ \A j \in 1..(k - 1) : rdy[j] \notin failing
            IN IF rdy = <<>> /\ inProgress = {}
               THEN /\ pc' = "rejected"
                    /\ error' = [kind |-> "cyclic", node |-> 0]
                    /\ UNCHANGED <<stateVars, completed, inProgress, ready, inflight>>
               ELSE /\ ready' = rdy
                    /\ nodeState' = [n \in DOMAIN nodeState |->
                                        IF n \in handled THEN "running"
                                        ELSE IF n \in passed THEN "completed"
                                        ELSE nodeState[n]]
                    /\ results' = [x \in (DOMAIN results) \cup passed |->
                                        IF x \in passed THEN NodeResult(x, GatherInputs(x))
                                        ELSE results[x]]
                    /\ inflight' = inflight \cup {Invocation(n) : n \in handled}
                    /\ inProgress' = (inProgress \cup wave) \ passed
                    /\ completed' = completed \cup passed
                    /\ IF failing # {}
                       THEN /\ pc' = "rejected"
                            /\ error' = [kind |-> "dependency",
                                         node |-> FirstNotCompleted(rdy[firstFailing])]
                       ELSE UNCHANGED <<pc, error>>
                    /\ UNCHANGED <<dagState, nodeError>>
    /\ lastSettled' = NoneSettled
    /\ UNCHANGED outsideDag
    /\ UNCHANGED <<dagVars, runId, mode, executionOrder, idx, returned, threw>>

\* ------------------------------------------------------ handler outcomes
\* Lines 216-222 after the handler of invocation a resolves, and the
\* continuation of the caller that awaits it (line 137, or lines 298-299).
HandlerReturns(a) ==
    /\ a \in inflight
    /\ inflight' = inflight \ {a}
    /\ nodeState' = [nodeState EXCEPT ![a.node] = "completed"]
    /\ results' = MapSet(results, a.node, NodeResult(a.node, a.inputs))
    /\ lastSettled' = [kind |-> "returned", node |-> a.node, run |-> a.run]
    /\ UNCHANGED outsideDag
    /\ IF a \in Awaited /\ mode = "seq"
       THEN /\ idx' = idx + 1
            /\ UNCHANGED <<inProgress, completed>>
       ELSE IF a \in Awaited /\ mode = "par"
       THEN /\ inProgress' = inProgress \ {a.node}
            /\ completed' = completed \cup {a.node}
            /\ UNCHANGED idx
       ELSE UNCHANGED <<idx, inProgress, completed>>
    /\ UNCHANGED <<dagVars, dagState, nodeError, runId, mode, pc, executionOrder, ready,
                   error, returned, threw>>

\* Lines 223-227 after the handler of invocation a rejects, and the rejection
\* of the caller that awaits it (executeDAG's catch, or Promise.all).
HandlerThrows(a) ==
    /\ a \in inflight
    /\ inflight' = inflight \ {a}
    /\ nodeState' = [nodeState EXCEPT ![a.node] = "failed"]
    /\ nodeError' = [nodeError EXCEPT ![a.node] = "handler"]
    /\ threw' = TRUE
    /\ lastSettled' = [kind |-> "threw", node |-> a.node, run |-> a.run]
    /\ UNCHANGED outsideDag
    /\ IF a \in Awaited /\ mode = "seq"
       THEN LET caught == executeDAGCatch([kind |-> "handler", node |-> a.node])
            IN /\ dagState' = caught.dagState
               /\ pc' = caught.pc
               /\ error' = caught.error
       ELSE IF a \in Awaited /\ mode = "par"
       THEN /\ pc' = "rejected"
            /\ error' = [kind |-> "handler", node |-> a.node]
            /\ UNCHANGED dagState
       ELSE UNCHANGED <<dagState, pc, error>>
    /\ UNCHANGED <<dagVars, results, runId, mode, executionOrder, idx, completed,
                   inProgress, ready, returned>>

Returns == \E a \in inflight : HandlerReturns(a)
Throws == \E a \in inflight : HandlerThrows(a)

\* ================================================================ swarm
\* ---------------------------------------------------------------- bounds
MaxRoster == 4
MaxResults == 4
MaxTeam == 3
MaxTasks == 2
MaxSubtasks == 2

\* Defaults of the constructor: config.maxAgents and config.consensusThreshold
\* (thresholds are counted in tenths: 7 is 0.7).
DefaultMaxAgents == 100
DefaultConsensusThreshold == 7

AgentIds == 1..MaxRoster
Topologies == {"mesh", "star", "hierarchical", "ring"}
\* spec.roles: one isCoordinator flag per role.
RoleLists == SeqsUpTo(BOOLEAN, MaxRoster - 1)
\* spec.maxAgents and spec.consensusThreshold; 0 stands for an absent field.
SpecMaxAgents == {0, 2}
SpecThresholds == {0, 5, 15}
SwarmSpecs == [topology : Topologies, roles : RoleLists,
               maxAgents : SpecMaxAgents, consensusThreshold : SpecThresholds]

\* JSON values an agent call resolves with: the content string of the gateway's
\* reply, null, or the fallback object { processed: true, task, agentId }.
Contents == {"yes", "null"}
TaskKinds == {"task", "subtask", "decompose", "aggregate", "synthesize"}
\* The field subtasks is the length of the value's .subtasks list, -1 when the
\* value has no such property.
Str(text) == [kind |-> "string", text |-> text, agentId |-> 0, subtasks |-> -1]
Null == [kind |-> "null", text |-> "", agentId |-> 0, subtasks |-> -1]
Fallback(task, agentId) ==
    [kind |-> "object", text |-> task, agentId |-> agentId, subtasks |-> -1]
\* A decomposition: an object carrying a subtasks list of k entries.
Plan(k) == [kind |-> "object", text |-> "plan", agentId |-> 0, subtasks |-> k]
JsonValues == {Str(c) : c \in Contents} \cup {Null} \cup
              {Fallback(t, a) : t \in TaskKinds, a \in AgentIds}

\* JSON.stringify(r), line 413.
Serialize(v) ==
    CASE v.kind = "string" -> "\"" \o v.text \o "\""
      [] v.kind = "null" -> "null"
      [] OTHER -> "{\"processed\":true,\"task\":\"" \o v.text \o "\",\"agentId\":"
                  \o ToString(v.agentId) \o "}"

\* JSON.parse(consensusValue), line 435.
Parse(text) == CHOOSE v \in JsonValues : Serialize(v) = text

\* ------------------------------------------------------- achieveConsensus
\* The let of line 421: consensusValue = null.
NoValue == ""
NoConsensus == [achieved |-> FALSE, confidence |-> [nan |-> TRUE, num |-> 0, den |-> 0],
                result |-> Null, votes |-> 0, total |-> 0]
NoArgs == [results |-> <<>>, threshold |-> 0]

\* Lines 414-418: the counts map, its keys in insertion order.
RECURSIVE CountVotes(_, _)
CountVotes(responses, counts) ==
    IF responses = <<>> THEN counts
    ELSE LET r == Head(responses)
         IN CountVotes(Tail(responses),
                IF r \in DOMAIN counts.count
                THEN [counts EXCEPT !.count[r] = @ + 1]
                ELSE [keys |-> Append(counts.keys, r),
                      count |-> MapSet(counts.count, r, 1)])

\* Fault variant of Exceeds: a later entry with the same count replaces the earlier.
ExceedsOrTies(count, maxCount) == count >= maxCount

\* Line 424: count > maxCount.
Exceeds(count, maxCount) == count > maxCount

\* Lines 420-428: the loop over counts.entries().
RECURSIVE MaxEntry(_, _, _)
MaxEntry(keys, count, best) ==
    IF keys = <<>> THEN best
    ELSE MaxEntry(Tail(keys), count,
             IF Exceeds(count[Head(keys)], best.maxCount)
             THEN [maxCount |-> count[Head(keys)], consensusValue |-> Head(keys)]
             ELSE best)

\* Fault variant of MeetsThreshold: the comparison is strict.
MeetsThresholdStrict(maxCount, total, threshold) ==
    total # 0 /\ maxCount * 10 > threshold * total

\* Line 430: maxCount / results.length >= threshold; 0 / 0 is NaN, and
\* NaN >= threshold is false.
MeetsThreshold(maxCount, total, threshold) ==
    total # 0 /\ maxCount * 10 >= threshold * total

\* Line 434: maxCount / results.length, as a fraction; 0 / 0 is NaN.
Quotient(num, den) == [nan |-> (den = 0 /\ num = 0), num |-> num, den |-> den]

\* achieveConsensus(results, threshold), lines 411-439.
achieveConsensus(agentResults, threshold) ==
    LET responses == [i \in DOMAIN agentResults |-> Serialize(agentResults[i])]
        counts == CountVotes(responses, [keys |-> <<>>, count |-> <<>>])
        best == MaxEntry(counts.keys, counts.count,
                         [maxCount |-> 0, consensusValue |-> NoValue])
    IN [achieved |-> MeetsThreshold(best.maxCount, Len(agentResults), threshold),
        confidence |-> Quotient(best.maxCount, Len(agentResults)),
        result |-> IF best.consensusValue # NoValue
                   THEN Parse(best.consensusValue) ELSE Null,
        votes |-> best.maxCount,
        total |-> Len(agentResults)]

\* A direct call of achieveConsensus.
ConsensusInputs == {Str(c) : c \in Contents} \cup {Null, Fallback("task", 1)}
Thresholds == {5, DefaultConsensusThreshold, 10}

AchieveConsensus ==
    /\ consensusArgs = NoArgs
    /\ \E rs \in SeqsUpTo(ConsensusInputs, MaxResults) : \E t \in Thresholds :
          /\ consensusArgs' = [results |-> rs, threshold |-> t]
          /\ consensus' = achieveConsensus(rs, t)
    /\ UNCHANGED <<outsideSwarm, swarmVars, agentVars, lastOp, taskVars>>

\* ------------------------------------------------------------- topology
\* Index (from 0) of agent a in the roster, and the id at index i.
IndexOf(ags, a) == (CHOOSE k \in DOMAIN ags : ags[k] = a) - 1
IdAt(ags, i) == ags[i + 1]
Others(ags, a) == SelectSeq(ags, LAMBDA b : b # a)

\* Fault variant of StarHub: the coordinator is not looked up.
StarHubFirst(ags, coord) == ags[1]

\* Line 204: agents.find(a => a.id === swarm.coordinator) || agents[0].
StarHub(ags, coord) == IF coord \in ToSet(ags) THEN coord ELSE ags[1]

\* Lines 205-211: the hub lists every other agent, a spoke lists the hub.
StarConnections(ags, coord, a) ==
    LET hub == StarHub(ags, coord)
    IN IF a = hub THEN Others(ags, hub) ELSE <<hub>>

\* Fault variant of ParentIndex: Math.floor(i / 2).
ParentIndexOffByOne(i) == i \div 2

\* Line 218: Math.floor((i - 1) / 2).
ParentIndex(i) == (i - 1) \div 2

\* Lines 217-232: parent, left child, right child, in that order.
HierarchicalConnections(ags, a) ==
    LET i == IndexOf(ags, a)
        has(k) == k >= 0 /\ k < Len(ags)
        link(k) == IF has(k) THEN <<IdAt(ags, k)>> ELSE <<>>
    IN link(ParentIndex(i)) \o link(2 * i + 1) \o link(2 * i + 2)

\* Fault variant of RingPrev: the first agent does not wrap around.
RingPrevNoWrap(i, n) == IF i = 0 THEN 0 ELSE i - 1

\* Lines 238-239.
RingPrev(i, n) == (i - 1 + n) % n
RingNext(i, n) == (i + 1) % n

\* Line 240.
RingConnections(ags, a) ==
    LET i == IndexOf(ags, a)
    IN <<IdAt(ags, RingPrev(i, Len(ags))), IdAt(ags, RingNext(i, Len(ags)))>>

\* updateTopologyConnections(swarm), lines 191-244.
updateTopologyConnections(topo, ags, coord) ==
    [a \in ToSet(ags) |->
        CASE topo = "mesh" -> Others(ags, a)
          [] topo = "star" -> StarConnections(ags, coord, a)
          [] topo = "hierarchical" -> HierarchicalConnections(ags, a)
          [] topo = "ring" -> RingConnections(ags, a)]

\* Lines 121-130: one agent per role; the last role flagged isCoordinator is
\* the coordinator.  Agent ids are fresh: the position in the roster.
RoleAgents(roles) == [i \in DOMAIN roles |-> i]
RoleCoordinator(roles) ==
    LET flagged == {i \in DOMAIN roles : roles[i]}
    IN IF flagged = {} THEN 0 ELSE CHOOSE i \in flagged : \A j \in flagged : j <= i

Returned(op) == [op |-> op, error |-> "none"]
Threw(op, message) == [op |-> op, error |-> message]

\* Fault variant of Refused: a spec without roles, or whose consensusThreshold
\* is given outside (0, 1], is refused.
RefusedIfMalformed(spec) ==
    spec.roles = <<>> \/ spec.consensusThreshold < 0 \/ spec.consensusThreshold > 10

\* Lines 94-117: createSwarm builds the swarm from whatever spec it is given;
\* there is no validation step, no spec is refused.
Refused(spec) == FALSE

\* createSwarm(spec), lines 94-142.  No agent.connections is computed here.
CreateSwarm ==
    /\ ~swarms
    /\ \E spec \in SwarmSpecs :
          IF Refused(spec)
          THEN /\ lastOp' = Threw("createSwarm", "ValidationError")
               /\ UNCHANGED <<swarmVars, agentVars>>
          ELSE /\ topology' = spec.topology
               /\ agents' = RoleAgents(spec.roles)
               /\ coordinator' = RoleCoordinator(spec.roles)
               /\ swarmConfig' =
                      [maxAgents |-> IF spec.maxAgents # 0 THEN spec.maxAgents
                                     ELSE DefaultMaxAgents,
                       consensusThreshold |->
                           IF spec.consensusThreshold # 0 THEN spec.consensusThreshold
                           ELSE DefaultConsensusThreshold]
               /\ connections' = [a \in DOMAIN spec.roles |-> <<>>]
               /\ agentState' = [a \in DOMAIN spec.roles |-> "ready"]
               /\ agentTasks' = [a \in DOMAIN spec.roles |-> 0]
               /\ swarms' = TRUE
               /\ swarmState' = "idle"
               /\ swarmMetrics' = [tasksCompleted |-> 0, consensusReached |-> 0]
               /\ metrics' = [metrics EXCEPT !.swarmsCreated = @ + 1]
               /\ lastOp' = Returned("createSwarm")
    /\ UNCHANGED <<outsideSwarm, taskVars, callVars>>

\* The caller awaits one swarm operation before it starts the next.
Quiet == phase \in {"idle", "resolved", "rejected"}

\* Fault variant of ThrowsBeforePush: the agent is pushed before the throw.
ThrowsAfterPush(message) ==
    /\ lastOp' = Threw("addAgent", message)
    /\ agents' = Append(agents, Len(agents) + 1)
    /\ connections' = MapSet(connections, Len(agents) + 1, <<>>)
    /\ agentState' = MapSet(agentState, Len(agents) + 1, "ready")
    /\ agentTasks' = MapSet(agentTasks, Len(agents) + 1, 0)
    /\ UNCHANGED <<swarms, topology, coordinator, swarmState, swarmConfig, swarmMetrics,
                   metrics>>

\* Lines 170-176: both throws of addAgent come before the push of line 179.
ThrowsBeforePush(message) ==
    /\ lastOp' = Threw("addAgent", message)
    /\ UNCHANGED <<swarmVars, agentVars>>

\* addAgent(swarmId, agentSpec), lines 168-186.
AddAgent ==
    /\ Quiet
    /\ Len(agents) < MaxRoster
    /\ IF ~swarms
       THEN ThrowsBeforePush("Swarm not found")
       ELSE IF Len(agents) >= swarmConfig.maxAgents
       THEN ThrowsBeforePush("Swarm is at maximum capacity")
       ELSE LET agent == Len(agents) + 1
                roster == Append(agents, agent)
            IN /\ agents' = roster
               /\ connections' = updateTopologyConnections(topology, roster, coordinator)
               /\ agentState' = MapSet(agentState, agent, "ready")
               /\ agentTasks' = MapSet(agentTasks, agent, 0)
               /\ lastOp' = Returned("addAgent")
               /\ UNCHANGED <<swarms, topology, coordinator, swarmState, swarmConfig,
                              swarmMetrics, metrics>>
    /\ UNCHANGED <<outsideSwarm, taskVars, callVars>>

\* ---------------------------------------------------------- executeTask
NoReturn == [success |-> FALSE, consensus |-> NoConsensus, value |-> Null]

\* Lines 320 and 348: agents.find(a => a.id === swarm.coordinator) || agents[0].
Lead == StarHub(agents, coordinator)

\* The synchronous head of executeAgentTask (lines 367-368) for each call of cs:
\* agent.state = 'busy', agent.metrics.tasksCompleted++, then the fetch.
Launch(cs) ==
    /\ calls' = cs
    /\ agentState' = [a \in DOMAIN agentState |->
                         IF \E c \in cs : c.agent = a THEN "busy" ELSE agentState[a]]
    /\ agentTasks' = [a \in DOMAIN agentTasks |->
                         agentTasks[a] + Cardinality({c \in cs : c.agent = a})]

\* One executeAgentTask call: the position of its promise in the list its
\* dispatch awaits, the agent, the type of the task object and, for the tasks
\* built from earlier results (lines 338-341 and 357-360), that results list.
Call(slot, agent, kind, input) ==
    [slot |-> slot, agent |-> agent, kind |-> kind, input |-> input]

NoInput == <<>>

\* results[i] of an awaited Promise.all over n calls kept in slots first..
Collected(first, n) == [i \in 1..n |-> slots[first + i - 1]]

\* executeTask(swarmId, task) with an id that is not registered, lines 250-253.
ExecuteTaskNotFound ==
    /\ ~swarms
    /\ Quiet
    /\ taskId < MaxTasks
    /\ taskId' = taskId + 1
    /\ phase' = "rejected"
    /\ taskError' = "Swarm not found"
    /\ taskReturned' = NoReturn
    /\ UNCHANGED <<outsideSwarm, swarmVars, agentVars, lastOp, calls, slots, failures, subtasks,
                   callVars>>

\* executeTask(swarmId, task), lines 249-279, up to the first await of the
\* dispatch chosen by swarm.topology.  Tasks go to rosters of at most MaxTeam.
ExecuteTask ==
    /\ swarms
    /\ Quiet
    /\ taskId < MaxTasks
    /\ Len(agents) <= MaxTeam
    /\ taskId' = taskId + 1
    /\ swarmState' = "executing"
    /\ slots' = <<>>
    /\ failures' = {}
    /\ subtasks' = 0
    /\ taskReturned' = NoReturn
    /\ taskError' = "none"
    /\ CASE topology = "hierarchical" ->
              /\ phase' = "decompose"
              /\ Launch(IF agents = <<>> THEN {} ELSE {Call(0, Lead, "decompose", NoInput)})
         [] topology = "star" ->
              /\ phase' = "spokes"
              /\ Launch(IF agents = <<>> THEN {}
                        ELSE LET spokes == Others(agents, Lead)
                             IN {Call(i, spokes[i], "task", NoInput) : i \in DOMAIN spokes})
         [] OTHER ->
              /\ phase' = "mesh"
              /\ Launch({Call(i, agents[i], "task", NoInput) : i \in DOMAIN agents})
    /\ UNCHANGED <<outsideSwarm, swarms, topology, agents, coordinator, swarmConfig,
                   swarmMetrics, metrics, connections, lastOp, callVars>>

\* What the gateway may answer to a call: a content string or null, and for a
\* decompose request also an object that carries a subtasks list.
Replies(c) ==
    {Str("yes"), Null} \cup
    (IF c.kind = "decompose" THEN {Plan(k) : k \in 0..MaxSubtasks} ELSE {})

\* Fault variant of Slot: results are kept in the order the calls settle.
SlotByArrival(c) == IF c.slot = 0 THEN 0 ELSE Cardinality(DOMAIN slots \ {0}) + 1

\* Lines 305, 331 and 352: Promise.all resolves to the values in the order of
\* the promises it was given, whatever the order in which they settle.
Slot(c) == c.slot

Settle(c, value) ==
    /\ calls' = calls \ {c}
    /\ agentState' = [agentState EXCEPT ![c.agent] = "ready"]
    /\ slots' = MapSet(slots, Slot(c), value)
    /\ UNCHANGED <<outsideSwarm, swarmVars, connections, agentTasks, lastOp, taskId, phase,
                   subtasks, taskReturned, taskError, callVars>>

\* Lines 395-399: the fetch resolved with an ok response.
AgentReplies ==
    /\ \E c \in calls : \E v \in Replies(c) : Settle(c, v)
    /\ UNCHANGED failures

\* Fault variant of Reject: the catch rethrows without touching swarm.state.
RejectKeepsState(message) ==
    /\ phase' = "rejected"
    /\ taskError' = message
    /\ UNCHANGED <<swarmState, swarmMetrics, metrics, taskReturned>>

\* Lines 288-292: the dispatch rejected.
Reject(message) ==
    /\ phase' = "rejected"
    /\ swarmState' = "error"
    /\ taskError' = message
    /\ UNCHANGED <<swarmMetrics, metrics, taskReturned>>

\* Fault variant of Caught: the failure of the fetch rejects the call, and
\* with it the dispatch that awaits it.
Uncaught(c) ==
    /\ calls' = calls \ {c}
    /\ agentState' = [agentState EXCEPT ![c.agent] = "ready"]
    /\ failures' = failures \cup {c.slot}
    /\ Reject("fetch failed")
    /\ UNCHANGED <<outsideSwarm, swarms, topology, agents, coordinator, swarmConfig,
                   connections, agentTasks, lastOp, taskId, slots, subtasks, callVars>>

\* Lines 397-405: the fetch threw, or the response was not ok; the error is
\* swallowed and the call resolves with the fallback object.
Caught(c) ==
    /\ Settle(c, Fallback(c.kind, c.agent))
    /\ failures' = failures \cup {c.slot}

AgentFails == \E c \in calls : Caught(c)

\* Fault variant of ConsensusBump: every mesh dispatch counts as a consensus.
ConsensusBumpAlways(cons) == 1

\* Lines 307-310: consensusReached++ if consensus.achieved (NoConsensus, the
\* value used for the dispatches that take no vote, is never achieved).
ConsensusBump(cons) == IF cons.achieved THEN 1 ELSE 0

\* Lines 281-287: the dispatch resolved.
Resolve(cons, value) ==
    /\ phase' = "resolved"
    /\ swarmState' = "idle"
    /\ swarmMetrics' = [tasksCompleted |-> swarmMetrics.tasksCompleted + 1,
                        consensusReached |-> swarmMetrics.consensusReached
                                             + ConsensusBump(cons)]
    /\ metrics' = [metrics EXCEPT !.tasksExecuted = @ + 1,
                                  !.consensusReached = @ + ConsensusBump(cons)]
    /\ taskReturned' = [success |-> TRUE, consensus |-> cons, value |-> value]
    /\ UNCHANGED taskError

\* executeMesh, lines 305-312, once Promise.all has resolved.
MeshConsensus ==
    /\ phase = "mesh"
    /\ calls = {}
    /\ LET agentResults == [i \in DOMAIN agents |-> slots[i]]
           cons == achieveConsensus(agentResults, swarmConfig.consensusThreshold)
       IN /\ consensusArgs' = [results |-> agentResults,
                               threshold |-> swarmConfig.consensusThreshold]
          /\ consensus' = cons
          /\ Resolve(cons, Null)
    /\ UNCHANGED <<outsideSwarm, swarms, topology, agents, coordinator, swarmConfig,
                   agentVars, lastOp, taskId, calls, slots, failures, subtasks>>

\* executeStar, lines 357-360, once the spokes have resolved.  With an empty
\* roster hub is undefined and executeAgentTask throws a TypeError.
StarAggregate ==
    /\ phase = "spokes"
    /\ calls = {}
    /\ IF agents = <<>>
       THEN /\ Reject("TypeError")
            /\ UNCHANGED <<agentVars, calls>>
       ELSE /\ phase' = "hub"
            /\ Launch({Call(0, Lead, "aggregate", Collected(1, Len(agents) - 1))})
            /\ UNCHANGED <<swarmState, swarmMetrics, metrics, connections,
                           taskReturned, taskError>>
    /\ UNCHANGED <<outsideSwarm, swarms, topology, agents, coordinator, swarmConfig,
                   lastOp, taskId, slots, failures, subtasks, callVars>>

\* The hub's call resolved: executeStar returns its value.
StarFinish ==
    /\ phase = "hub"
    /\ calls = {}
    /\ Resolve(NoConsensus, slots[0])
    /\ UNCHANGED <<outsideSwarm, swarms, topology, agents, coordinator, swarmConfig,
                   agentVars, lastOp, taskId, calls, slots, failures, subtasks, callVars>>

\* Fault variant of WorkerIndex: every subtask goes to the first worker.
WorkerIndexFirst(i, w) == 0

\* Line 333: workers[i % workers.length].
WorkerIndex(i, w) == i % w

\* executeHierarchical, lines 328-335, once the decomposition has resolved.
HierarchicalAssign ==
    /\ phase = "decompose"
    /\ calls = {}
    /\ IF agents = <<>>
       THEN \* coordinator is undefined: executeAgentTask throws a TypeError
            /\ Reject("TypeError")
            /\ UNCHANGED <<agentVars, calls, subtasks>>
       ELSE IF slots[0].kind = "null"
       THEN \* decomposed is null: decomposed.subtasks throws a TypeError
            /\ Reject("TypeError")
            /\ UNCHANGED <<agentVars, calls, subtasks>>
       ELSE LET decomposed == slots[0]
                planned == decomposed.subtasks >= 0
                count == IF planned THEN decomposed.subtasks ELSE 1
                workers == Others(agents, Lead)
            IN IF count > 0 /\ workers = <<>>
               THEN \* workers[i % 0] is undefined: executeAgentTask throws
                    /\ Reject("TypeError")
                    /\ UNCHANGED <<agentVars, calls, subtasks>>
               ELSE /\ phase' = "workers"
                    /\ subtasks' = count
                    /\ Launch({Call(i + 1, IdAt(workers, WorkerIndex(i, Len(workers))),
                                    IF planned THEN "subtask" ELSE "task", NoInput)
                                  : i \in 0..(count - 1)})
                    /\ UNCHANGED <<swarmState, swarmMetrics, metrics, connections,
                                   taskReturned, taskError>>
    /\ UNCHANGED <<outsideSwarm, swarms, topology, agents, coordinator, swarmConfig,
                   lastOp, taskId, slots, failures, callVars>>

\* Lines 338-341: the subtasks have resolved, the coordinator synthesizes.
HierarchicalSynthesize ==
    /\ phase = "workers"
    /\ calls = {}
    /\ phase' = "synthesize"
    /\ Launch({Call(subtasks + 1, Lead, "synthesize", Collected(1, subtasks))})
    /\ UNCHANGED <<outsideSwarm, swarmVars, connections, lastOp, taskId, slots, failures,
                   subtasks, taskReturned, taskError, callVars>>

\* The synthesis resolved: executeHierarchical returns its value.
HierarchicalFinish ==
    /\ phase = "synthesize"
    /\ calls = {}
    /\ Resolve(NoConsensus, slots[subtasks + 1])
    /\ UNCHANGED <<outsideSwarm, swarms, topology, agents, coordinator, swarmConfig,
                   agentVars, lastOp, taskId, calls, slots, failures, subtasks, callVars>>

\* ============================================================ SolversManager
\* Sorted arrays of at most MaxLen numbers of 1..MaxValue; a target may also
\* lie below or above every element.
MaxLen == 4
MaxValue == 3
Values == 1..MaxValue
Targets == 0..(MaxValue + 1)
IsSorted(arr) == \A i \in 1..(Len(arr) - 1) : arr[i] <= arr[i + 1]
SortedArrays == {arr \in SeqsUpTo(Values, MaxLen) : IsSorted(arr)}

\* arr[i] of the source (indices from 0); arr[i] is undefined outside the
\* array, and a comparison with undefined is false.
InArray(arr, i) == i \in 0..(Len(arr) - 1)
ElemLess(arr, i, target) == InArray(arr, i) /\ arr[i + 1] < target
ElemIs(arr, i, target) == InArray(arr, i) /\ arr[i + 1] = target
Min(a, b) == IF a <= b THEN a ELSE b

\* What a search call comes to: the object it returns, or no return at all.
FoundAt(i, comparisons) ==
    [returns |-> TRUE, found |-> TRUE, index |-> i, comparisons |-> comparisons]
NotFound(comparisons) ==
    [returns |-> TRUE, found |-> FALSE, index |-> -1, comparisons |-> comparisons]
NeverReturns == [returns |-> FALSE, found |-> FALSE, index |-> -1, comparisons |-> 0]

\* ----------------------------------------------------------- binarySearch
\* Fault variant of LeftUpToRight: the loop stops when one element is left.
LeftBelowRight(left, right) == left < right

\* Line 925: while (left <= right).
LeftUpToRight(left, right) == left <= right

\* Fault variant of Mid: the probe is the left end of the range.
MidLeft(left, right) == left

\* Line 927: Math.floor((left + right) / 2).
Mid(left, right) == (left + right) \div 2

\* Lines 925-938: the loop of binarySearch.
RECURSIVE BinaryLoop(_, _, _, _, _)
BinaryLoop(arr, target, left, right, comparisons) ==
    IF ~LeftUpToRight(left, right) THEN NotFound(comparisons)
    ELSE LET mid == Mid(left, right)
         IN IF ElemIs(arr, mid, target) THEN FoundAt(mid, comparisons + 1)
            ELSE IF ElemLess(arr, mid, target)
            THEN BinaryLoop(arr, target, mid + 1, right, comparisons + 1)
            ELSE BinaryLoop(arr, target, left, mid - 1, comparisons + 1)

\* binarySearch(arr, target), lines 920-941.
binarySearch(arr, target) == BinaryLoop(arr, target, 0, Len(arr) - 1, 0)

\* ------------------------------------------------------------- jumpSearch
\* Line 948: Math.floor(Math.sqrt(n)).
FloorSqrt(n) == CHOOSE k \in 0..n : k * k <= n /\ (k + 1) * (k + 1) > n

\* Lines 960-966 and 968-972: the scan from prev, and the final comparison.
RECURSIVE JumpScan(_, _, _, _, _)
JumpScan(arr, target, prev, comparisons, limit) ==
    IF ElemLess(arr, prev, target)
    THEN IF prev + 1 = limit THEN NotFound(comparisons + 1)
         ELSE JumpScan(arr, target, prev + 1, comparisons + 1, limit)
    ELSE IF ElemIs(arr, prev, target) THEN FoundAt(prev, comparisons)
    ELSE NotFound(comparisons)

\* jumpSearch(arr, target), lines 946-973.  The first loop (lines 952-958)
\* tests arr[Math.min(step, n) - 1] < target; its body assigns prev = step and
\* returns if prev >= n.  Nothing in the body changes step, n, arr or target:
\* when the test is true and step < n, it is true again on every iteration
\* and the call never returns.
jumpSearch(arr, target) ==
    LET n == Len(arr)
        step == FloorSqrt(n)
    IN IF ElemLess(arr, Min(step, n) - 1, target)
       THEN IF step >= n THEN NotFound(1) ELSE NeverReturns
       ELSE JumpScan(arr, target, 0, 0, Min(step, n))

\* ---------------------------------------------------- interpolationSearch
ElemAtMost(arr, i, target) == InArray(arr, i) /\ arr[i + 1] <= target
ElemAtLeast(arr, i, target) == InArray(arr, i) /\ arr[i + 1] >= target

\* Lines 994-996: low + Math.floor(((high - low) / (arr[high] - arr[low])) *
\* (target - arr[low])).  A division by arr[high] - arr[low] = 0 gives
\* Infinity, and Infinity * 0 is NaN: pos is then not an index.  Otherwise the
\* value is the exact floor (the double arithmetic agrees with it on the
\* numbers of this model).
Position(arr, target, low, high) ==
    LET span == arr[high + 1] - arr[low + 1]
        offset == target - arr[low + 1]
    IN IF span = 0 THEN [finite |-> FALSE, index |-> 0]
       ELSE [finite |-> TRUE, index |-> low + (((high - low) * offset) \div span)]

\* Lines 983-1007: the loop of interpolationSearch.  With pos NaN (or
\* Infinity) arr[pos] is undefined, so neither test of lines 998 and 1002
\* holds, high becomes pos - 1, which is NaN (or Infinity), and the loop
\* condition fails on low <= high (or on target <= arr[high]).
RECURSIVE InterpolationLoop(_, _, _, _, _)
InterpolationLoop(arr, target, low, high, comparisons) ==
    IF ~(low <= high /\ ElemAtMost(arr, low, target) /\ ElemAtLeast(arr, high, target))
    THEN NotFound(comparisons)
    ELSE IF low = high
    THEN IF ElemIs(arr, low, target) THEN FoundAt(low, comparisons + 1)
         ELSE NotFound(comparisons + 1)
    ELSE LET pos == Position(arr, target, low, high)
         IN IF ~pos.finite THEN NotFound(comparisons + 1)
            ELSE IF ElemIs(arr, pos.index, target)
            THEN FoundAt(pos.index, comparisons + 1)
            ELSE IF ElemLess(arr, pos.index, target)
            THEN InterpolationLoop(arr, target, pos.index + 1, high, comparisons + 1)
            ELSE InterpolationLoop(arr, target, low, pos.index - 1, comparisons + 1)

\* interpolationSearch(arr, target), lines 978-1010.
interpolationSearch(arr, target) == InterpolationLoop(arr, target, 0, Len(arr) - 1, 0)

\* ------------------------------------------------------------ search calls
NoSearch == [algorithm |-> "none", data |-> <<>>, target |-> 0]
Search(algorithm, arr, target) == [algorithm |-> algorithm, data |-> arr, target |-> target]

\* A call binarySearch(arr, target).
BinarySearch ==
    /\ \E arr \in SortedArrays, target \in Targets :
          /\ searchCall' = Search("binary-search", arr, target)
          /\ searchResult' = binarySearch(arr, target)
    /\ UNCHANGED <<dagSide, swarmSide, clientSide, pathVars, cspVars, sketchVars, optVars>>

\* A call jumpSearch(arr, target).
JumpSearch ==
    /\ \E arr \in SortedArrays, target \in Targets :
          /\ searchCall' = Search("jump-search", arr, target)
          /\ searchResult' = jumpSearch(arr, target)
    /\ UNCHANGED <<dagSide, swarmSide, clientSide, pathVars, cspVars, sketchVars, optVars>>

\* A call interpolationSearch(arr, target).
InterpolationSearch ==
    /\ \E arr \in SortedArrays, target \in Targets :
          /\ searchCall' = Search("interpolation-search", arr, target)
          /\ searchResult' = interpolationSearch(arr, target)
    /\ UNCHANGED <<dagSide, swarmSide, clientSide, pathVars, cspVars, sketchVars, optVars>>

\* -------------------------------------------------------------- solveBMSSP
\* Graphs of MaxVertices declared nodes (ids 1..MaxVertices, in that order)
\* and an edge list of at most MaxLinks edges with weights 0, 1 or MaxWeight;
\* at most MaxSolves calls are followed.
MaxVertices == 3
MaxLinks == 3
MaxWeight == 3
MaxSolves == 1
Vertices == 1..MaxVertices
Weights == {0, 1, MaxWeight}
Links == {e \in [from : Vertices, to : Vertices, weight : Weights] : e.from # e.to}
LinkLists == SeqsUpTo(Links, MaxLinks)

\* Infinity: above every finite distance of these graphs, and absorbing.
Infinity == MaxLinks * MaxWeight + 1
Plus(a, b) == IF a = Infinity \/ b = Infinity THEN Infinity ELSE a + b

\* Line 1243: weight: edge.weight || 1 (a weight of 0 is falsy).
WeightOr1(weight) == IF weight = 0 THEN 1 ELSE weight

\* Lines 1240-1244: adj.get(node), the edges leaving node in list order.
Adjacent(links, node) == SelectSeq(links, LAMBDA e : e.from = node)

\* Lines 1264-1269: the relaxation of the edges leaving minNode, in order.
RECURSIVE Relax(_, _, _)
Relax(out, distances, minNode) ==
    IF out = <<>> THEN distances
    ELSE LET edge == Head(out)
             newDist == Plus(distances[minNode], WeightOr1(edge.weight))
         IN Relax(Tail(out),
                  IF newDist < distances[edge.to]
                  THEN [distances EXCEPT ![edge.to] = newDist] ELSE distances,
                  minNode)

\* Lines 1249-1257: the first unvisited node, in declaration order, among those
\* of least finite distance; 0 stands for null.
MinNode(distances, visited) ==
    LET open == {v \in Vertices \ visited : distances[v] < Infinity}
    IN IF open = {} THEN 0
       ELSE CHOOSE v \in open :
               \A u \in open : distances[v] < distances[u]
                               \/ (distances[v] = distances[u] /\ v <= u)

\* Lines 1247-1270: the loop of dijkstra.
RECURSIVE DijkstraLoop(_, _, _)
DijkstraLoop(links, distances, visited) ==
    IF Cardinality(visited) >= MaxVertices THEN distances
    ELSE LET minNode == MinNode(distances, visited)
         IN IF minNode = 0 THEN distances
            ELSE DijkstraLoop(links, Relax(Adjacent(links, minNode), distances, minNode),
                              visited \cup {minNode})

\* dijkstra(graph, source), lines 1227-1273.
dijkstra(links, source) ==
    DijkstraLoop(links, [v \in Vertices |-> IF v = source THEN 0 ELSE Infinity], {})

\* Line 1212: distances[target] || Infinity (a distance of 0 is falsy).
OrInfinity(distance) == IF distance = 0 THEN Infinity ELSE distance

\* solveBMSSP({graph, sources: [source]}), lines 1194-1222: targets defaults
\* to every declared node; paths is keyed by the pair source -> target.
solveBMSSP(links, source) ==
    LET distances == dijkstra(links, source)
    IN [paths |-> [key \in {<<source, t>> : t \in Vertices \ {source}} |->
                      OrInfinity(distances[key[2]])],
        sources |-> 1,
        targets |-> MaxVertices]

NoProblem == [links |-> <<>>, source |-> 0]
NoPaths == [paths |-> <<>>, sources |-> 0, targets |-> 0]

\* A call solveBMSSP(problem); this.bmssp is null (line 736).
SolveBMSSP ==
    /\ pathsComputed < MaxSolves
    /\ pathsComputed' = pathsComputed + 1
    /\ \E links \in LinkLists, source \in Vertices :
          /\ pathCall' = [links |-> links, source |-> source]
          /\ pathResult' = solveBMSSP(links, source)
    /\ UNCHANGED <<dagSide, swarmSide, clientSide, searchVars, cspVars, sketchVars, optVars>>

\* ---------------------------------------------------------- solveConstraint
\* Problems over the variables 1..MaxVars, each with a domain list of at most
\* MaxDomain values of 1..MaxDomain, and at most MaxConstraints constraints,
\* each naming two distinct variables.
MaxVars == 3
MaxDomain == 2
MaxConstraints == 2
CspVariables == 1..MaxVars
DomainLists == SeqsUpTo(1..MaxDomain, MaxDomain)
ConstraintKinds == {"differ", "less", "sum"}
Constraints == {c \in [variables : CspVariables \X CspVariables, kind : ConstraintKinds] :
                   c.variables[1] # c.variables[2]}
Problems == [domains : [CspVariables -> DomainLists],
             constraints : SeqsUpTo(Constraints, MaxConstraints)]

\* constraint.check(assignment): the two values differ, the first is less
\* than the second, or they add up to MaxDomain + 1.
check(c, assignment) ==
    LET a == assignment[c.variables[1]]
        b == assignment[c.variables[2]]
    IN CASE c.kind = "differ" -> a # b
         [] c.kind = "less" -> a < b
         [] OTHER -> a + b = MaxDomain + 1

\* Fault variant of Assigned: a constraint is checked only when its first
\* variable is the one that has just been given a value.
AssignedFirstLast(c, assignment) ==
    /\ \A i \in DOMAIN c.variables : c.variables[i] \in DOMAIN assignment
    /\ \A v \in DOMAIN assignment : v <= c.variables[1]

\* Line 1287: constraint.variables.every(v => v in assignment).
Assigned(c, assignment) == \A i \in DOMAIN c.variables : c.variables[i] \in DOMAIN assignment

\* isConsistent(var_, value), lines 1284-1295, on the assignment that already
\* holds var_ (line 1285).
isConsistent(problem, assignment) ==
    \A i \in DOMAIN problem.constraints :
        Assigned(problem.constraints[i], assignment)
            => check(problem.constraints[i], assignment)

\* Fault variant of ValueAt: the domain is walked from its end.
ValueAtFromEnd(domain, k) == domain[Len(domain) + 1 - k]

\* Line 1305: for (const value of domain), the k-th value of the walk.
ValueAt(domain, k) == domain[k]

\* backtrack(varIndex), lines 1297-1315, from the k-th value of the domain
\* on; assignment holds the variables before varIndex.  The value is the
\* pair of what backtrack returns and the assignment it leaves.
RECURSIVE backtrack(_, _, _, _)
backtrack(problem, varIndex, k, assignment) ==
    IF varIndex = MaxVars THEN [ok |-> TRUE, assignment |-> assignment]
    ELSE LET var == varIndex + 1
             domain == problem.domains[var]
         IN IF k > Len(domain) THEN [ok |-> FALSE, assignment |-> assignment]
            ELSE LET with == MapSet(assignment, var, ValueAt(domain, k))
                     deeper == IF isConsistent(problem, with)
                               THEN backtrack(problem, varIndex + 1, 1, with)
                               ELSE [ok |-> FALSE, assignment |-> assignment]
                 IN IF deeper.ok THEN deeper
                    ELSE backtrack(problem, varIndex, k + 1, assignment)

NoAssignment == [null |-> TRUE, values |-> <<>>]
\* solveConstraint(problem), lines 1278-1325.
solveConstraint(problem) ==
    LET found == backtrack(problem, 0, 1, <<>>)
    IN [solved |-> found.ok,
        assignment |-> IF found.ok THEN [null |-> FALSE, values |-> found.assignment]
                       ELSE NoAssignment,
        variables |-> MaxVars,
        constraints |-> Len(problem.constraints)]

NoCsp == [domains |-> <<>>, constraints |-> <<>>]
NoSolution == [solved |-> FALSE, assignment |-> NoAssignment, variables |-> 0,
               constraints |-> 0]

\* A call solveConstraint(problem); each call is followed from the state the
\* manager is built in, since the solver keeps nothing between calls.
SolveConstraint ==
    /\ cspCall = NoCsp
    /\ \E problem \in Problems :
          /\ cspCall' = problem
          /\ cspResult' = solveConstraint(problem)
    /\ UNCHANGED <<dagSide, swarmSide, clientSide, searchVars, pathVars, sketchVars, optVars>>

\* ----------------------------------------------------------- countMinSketch
\* Data lists of at most MaxData items.  An item is a number or a string; text
\* is the list of the character codes of String(item), so that the number 1
\* and the string "1" are different items with the same text.  "ab" and "bC"
\* are strings that hash alike under every seed.
MaxData == 3
Width == 1000
Depth == 7
Item(type, text) == [type |-> type, text |-> text]
Items == {Item("number", <<49>>), Item("string", <<49>>),
          Item("string", <<97, 98>>), Item("string", <<98, 67>>)}
DataLists == SeqsUpTo(Items, MaxData)
Abs(n) == IF n < 0 THEN -n ELSE n

\* Line 1083: hashSeeds[i] = i * 31.
hashSeed(i) == i * 31

\* Lines 1088-1091: h = (h * 31 + str.charCodeAt(i)) % width over the text.
RECURSIVE hashFrom(_, _)
hashFrom(h, text) ==
    IF text = <<>> THEN h
    ELSE hashFrom((h * 31 + Head(text)) % Width, Tail(text))

\* hash(item, seed), lines 1086-1093.
hash(item, seed) == Abs(hashFrom(seed, item.text))

\* sketch[i][index] after the loop of lines 1096-1101: one increment for each
\* entry of data that hashes to index in row i.
Cell(data, i, index) ==
    Cardinality({k \in DOMAIN data : hash(data[k], hashSeed(i)) = index})

\* Fault variant of QueryIndex: the query hashes with a seed of its own.
QueryIndexOtherSeed(item, i) == hash(item, hashSeed(i) + 1)

\* Line 1110: the cell of item in row i.
QueryIndex(item, i) == hash(item, hashSeed(i))

\* query(item) of the object countMinSketch(data) returns, lines 1107-1114.
query(data, item) ==
    LET cells == {Cell(data, i, QueryIndex(item, i)) : i \in 0..(Depth - 1)}
    IN CHOOSE m \in cells : \A c \in cells : m <= c

NoSketch == [called |-> FALSE, data |-> <<>>, item |-> Item("number", <<49>>)]

\* A call countMinSketch(data).query(item).
CountMinSketch ==
    /\ \E data \in DataLists, item \in Items :
          /\ sketchCall' = [called |-> TRUE, data |-> data, item |-> item]
          /\ sketchResult' = query(data, item)
    /\ UNCHANGED <<dagSide, swarmSide, clientSide, searchVars, pathVars, cspVars, optVars>>

\* --------------------------------------------------------- solveOptimization
\* The objective is the caller's: what the model keeps of an iteration is
\* its gradient norm, one of the levels 0..MaxNorm, against a tolerance of
\* 1..MaxNorm.  maxIterations is given, from 0 to MaxIterations.
MaxIterations == 4
MaxNorm == 2
NormLevels == 0..MaxNorm
Tolerances == 1..MaxNorm
NoOptimization == [maxIterations |-> 0, tolerance |-> 0]
NoOptimum == [returned |-> FALSE, iterations |-> 0, converged |-> FALSE]

\* solveOptimization(problem), lines 1330-1341, up to the loop.
SolveOptimization ==
    /\ optPhase = "idle"
    /\ \E maxIterations \in 0..MaxIterations, tolerance \in Tolerances :
          optCall' = [maxIterations |-> maxIterations, tolerance |-> tolerance]
    /\ optPhase' = "loop"
    /\ UNCHANGED <<dagSide, swarmSide, clientSide, searchVars, pathVars, cspVars, sketchVars,
                   gradNorms, optResult>>

\* One iteration of the loop, lines 1343-1366: history.push, the gradient, the
\* update of point, then the break if gradNorm < tolerance.
Iterate ==
    /\ optPhase = "loop"
    /\ Len(gradNorms) < optCall.maxIterations
    /\ \E gradNorm \in NormLevels :
          /\ gradNorms' = Append(gradNorms, gradNorm)
          /\ optPhase' = IF gradNorm < optCall.tolerance THEN "break" ELSE "loop"
    /\ UNCHANGED <<dagSide, swarmSide, clientSide, searchVars, pathVars, cspVars, sketchVars,
                   optCall, optResult>>

\* Lines 1368-1373, after the break or once i < maxIterations fails:
\* iterations is history.length, converged is history.length < maxIterations.
OptimizationReturns ==
    /\ \/ optPhase = "break"
       \/ optPhase = "loop" /\ Len(gradNorms) >= optCall.maxIterations
    /\ optPhase' = "done"
    /\ optResult' = [returned |-> TRUE, iterations |-> Len(gradNorms),
                     converged |-> Len(gradNorms) < optCall.maxIterations]
    /\ UNCHANGED <<dagSide, swarmSide, clientSide, searchVars, pathVars, cspVars, sketchVars,
                   optCall, gradNorms>>

InitSolvers ==
    /\ searchCall = NoSearch
    /\ searchResult = NeverReturns
    /\ pathsComputed = 0
    /\ pathCall = NoProblem
    /\ pathResult = NoPaths
    /\ cspCall = NoCsp
    /\ cspResult = NoSolution
    /\ sketchCall = NoSketch
    /\ sketchResult = 0
    /\ optCall = NoOptimization
    /\ optPhase = "idle"
    /\ gradNorms = <<>>
    /\ optResult = NoOptimum

\* =========================================================== MCPGatewayClient
\* options.retries is absent (0) or 1..MaxRetries, options.retryDelay absent
\* (0) or 1 ms; a response body is one of Bodies.
MaxRetries == 2
DefaultRetries == 3
DefaultRetryDelay == 1000
Bodies == {"a", "b"}
Failures == {"network", "status"}
NoClient == [built |-> FALSE, retries |-> 0, retryDelay |-> 0]
NoFetch == [status |-> "none", body |-> "", attempts |-> 0]
Outcome(kind, body) == [kind |-> kind, body |-> body]

\* new MCPGatewayClient(options), lines 16-18: options.retries || 3 and
\* options.retryDelay || 1000.
Construct ==
    /\ ~client.built
    /\ \E retries \in 0..MaxRetries, retryDelay \in {0, 1} :
          client' = [built |-> TRUE,
                     retries |-> IF retries # 0 THEN retries ELSE DefaultRetries,
                     retryDelay |-> IF retryDelay # 0 THEN retryDelay
                                    ELSE DefaultRetryDelay]
    /\ UNCHANGED <<dagSide, swarmSide, solverSide, fetchPhase, attempt, outcomes, sleeps,
                   fetchResult>>

\* _fetch(path, options), lines 195-207, up to the first attempt (this.retries
\* is at least 1, so the loop is entered).
Fetch ==
    /\ client.built
    /\ fetchPhase = "idle"
    /\ fetchPhase' = "attempt"
    /\ attempt' = 0
    /\ UNCHANGED <<dagSide, swarmSide, solverSide, client, outcomes, sleeps, fetchResult>>

\* Lines 212-223: fetch resolved with an ok response whose body parses; the
\* call resolves with response.json().
Responds ==
    /\ fetchPhase = "attempt"
    /\ \E body \in Bodies :
          /\ outcomes' = Append(outcomes, Outcome("ok", body))
          /\ fetchResult' = [status |-> "returned", body |-> body,
                             attempts |-> attempt + 1]
    /\ fetchPhase' = "returned"
    /\ UNCHANGED <<dagSide, swarmSide, solverSide, client, attempt, sleeps>>

\* Line 223 with a body that is not JSON: `return response.json()` hands the
\* promise over without awaiting it, so its rejection is outside the
\* try/catch and rejects the call at once.
RespondsUnparsable ==
    /\ fetchPhase = "attempt"
    /\ outcomes' = Append(outcomes, Outcome("unparsable", ""))
    /\ fetchResult' = [status |-> "threw", body |-> "SyntaxError", attempts |-> attempt + 1]
    /\ fetchPhase' = "threw"
    /\ UNCHANGED <<dagSide, swarmSide, solverSide, client, attempt, sleeps>>

\* Lines 224-234: fetch rejected (network error, abort on timeout) or the
\* response was not ok.  The error is caught; another attempt follows after
\* a sleep of retryDelay * 2^attempt, or the loop ends and the call throws.
AttemptFails ==
    /\ fetchPhase = "attempt"
    /\ \E kind \in Failures : outcomes' = Append(outcomes, Outcome(kind, ""))
    /\ IF attempt < client.retries - 1
       THEN /\ fetchPhase' = "sleep"
            /\ sleeps' = Append(sleeps, client.retryDelay * (2 ^ attempt))
            /\ UNCHANGED <<attempt, fetchResult>>
       ELSE /\ fetchPhase' = "threw"
            /\ attempt' = attempt + 1
            /\ fetchResult' = [status |-> "threw", body |-> "Failed to communicate",
                               attempts |-> client.retries]
            /\ UNCHANGED sleeps
    /\ UNCHANGED <<dagSide, swarmSide, solverSide, client>>

\* Line 229 resolved: attempt++ and the next attempt starts.
Wakes ==
    /\ fetchPhase = "sleep"
    /\ attempt' = attempt + 1
    /\ fetchPhase' = "attempt"
    /\ UNCHANGED <<dagSide, swarmSide, solverSide, client, outcomes, sleeps, fetchResult>>

InitClient ==
    /\ client = NoClient
    /\ fetchPhase = "idle"
    /\ attempt = 0
    /\ outcomes = <<>>
    /\ sleeps = <<>>
    /\ fetchResult = NoFetch

\* ------------------------------------------------------------------ Init
InitSwarm ==
    /\ swarms = FALSE
    /\ topology = "none"
    /\ agents = <<>>
    /\ coordinator = 0
    /\ swarmState = "none"
    /\ swarmConfig = [maxAgents |-> 0, consensusThreshold |-> 0]
    /\ swarmMetrics = [tasksCompleted |-> 0, consensusReached |-> 0]
    /\ metrics = [swarmsCreated |-> 0, tasksExecuted |-> 0, consensusReached |-> 0]
    /\ connections = <<>>
    /\ agentState = <<>>
    /\ agentTasks = <<>>
    /\ lastOp = Returned("none")
    /\ taskId = 0
    /\ phase = "idle"
    /\ calls = {}
    /\ slots = <<>>
    /\ failures = {}
    /\ subtasks = 0
    /\ taskReturned = NoReturn
    /\ taskError = "none"
    /\ consensusArgs = NoArgs
    /\ consensus = NoConsensus

Init == InitDag /\ InitSwarm /\ InitSolvers /\ InitClient

Next ==
    \/ CreateDAG
    \/ ExecuteDAGSpec
    \/ ExecuteDAGId
    \/ ExecuteDAGNotFound
    \/ SeqExecuteNode
    \/ SeqFinish
    \/ ExecuteParallel
    \/ ParallelWave
    \/ Returns
    \/ Throws

Spec == Init /\ [][Next]_vars

\* createDAG and topologicalSort alone: a graph is built from every spec and
\* executeDAG computes its execution order; no node is executed.
NextBuild ==
    \/ CreateDAG
    \/ ExecuteDAGId

SpecBuild == Init /\ [][NextBuild]_vars

\* Every started handler settles and the event loop runs every continuation.
FairSpec ==
    /\ Spec
    /\ WF_vars(SeqExecuteNode)
    /\ WF_vars(SeqFinish)
    /\ WF_vars(ParallelWave)
    /\ WF_vars(Returns \/ Throws)

\* The swarm manager: creation, roster growth and the dispatch of tasks.
NextSwarm ==
    \/ CreateSwarm
    \/ AddAgent
    \/ ExecuteTaskNotFound
    \/ ExecuteTask
    \/ AgentReplies
    \/ AgentFails
    \/ MeshConsensus
    \/ StarAggregate
    \/ StarFinish
    \/ HierarchicalAssign
    \/ HierarchicalSynthesize
    \/ HierarchicalFinish

SpecSwarm == Init /\ [][NextSwarm]_vars

\* The roster alone: createSwarm and addAgent, no task is dispatched.
NextRoster ==
    \/ CreateSwarm
    \/ AddAgent

SpecRoster == Init /\ [][NextRoster]_vars

\* achieveConsensus alone, called on every list of results.
SpecConsensus == Init /\ [][AchieveConsensus]_vars

\* The searches alone.
NextSearch == BinarySearch \/ JumpSearch \/ InterpolationSearch
SpecSearch == Init /\ [][NextSearch]_vars

\* The constraint solver alone.
SpecConstraint == Init /\ [][SolveConstraint]_vars

\* The count-min sketch alone.
SpecSketch == Init /\ [][CountMinSketch]_vars

\* The gradient descent alone.
NextOptimization == SolveOptimization \/ Iterate \/ OptimizationReturns
SpecOptimization == Init /\ [][NextOptimization]_vars

\* The gateway client alone.
NextFetch == Construct \/ Fetch \/ Responds \/ RespondsUnparsable \/ AttemptFails \/ Wakes
SpecFetch == Init /\ [][NextFetch]_vars

\* The shortest-path solver alone.
SpecPaths == Init /\ [][SolveBMSSP]_vars

\* ================================================================ claims
DependsOn(nodeId) == ToSet(dependencies[nodeId])

\* The dependency relation of the registered graph has no cycle: peeling off
\* the nodes whose dependencies are all peeled empties the graph.
RECURSIVE Peels(_)
Peels(S) ==
    LET free == {n \in S : DependsOn(n) \cap S = {}}
    IN IF S = {} THEN TRUE
       ELSE IF free = {} THEN FALSE
       ELSE Peels(S \ free)

Acyclic == Peels(Declared)

\* C1: in executeDAG and in executeParallel, at the step that invokes a node's
\* handler every dependency of the node is 'completed' and has its result in
\* dag.results.
C1_DepsCommittedAtInvocation ==
    [][\A a \in inflight' \ inflight :
          \A d \in DependsOn(a.node) :
              nodeState[d] = "completed" /\ d \in DOMAIN results]_vars

\* A sequential run has invoked the handler of a node with dependencies while
\* a handler with dependencies started by an earlier parallel run is pending.
C1_Witness ==
    /\ mode = "seq"
    /\ \E a \in Awaited : DependsOn(a.node) # {}
    /\ \E b \in inflight : b.run # runId /\ DependsOn(b.node) # {}

\* C2: on an acyclic graph executeDAG terminates; when no handler threw it
\* resolves, the graph is 'completed' and the returned map has exactly the
\* declared node ids as keys.
C2_SequentialCompletes ==
    /\ []((dags /\ mode = "seq" /\ pc # "running" /\ Acyclic /\ ~threw)
            => /\ pc = "returned"
               /\ dagState = "completed"
               /\ DOMAIN returned = Declared)
    /\ ((dags /\ mode = "seq" /\ pc = "running" /\ Acyclic) ~> (pc # "running"))

\* executeDAG returned on an acyclic graph of MaxNodes nodes with a dependency.
C2_Witness ==
    /\ mode = "seq"
    /\ pc = "returned"
    /\ Acyclic
    /\ ~threw
    /\ Cardinality(Declared) = MaxNodes
    /\ \E n \in Declared : DependsOn(n) # {}

\* C3: on an acyclic graph the order computed by topologicalSort holds every
\* declared node id exactly once and every node after all its dependencies.
C3_TopologicalOrder ==
    (dags /\ mode = "seq" /\ Acyclic) =>
        /\ Len(executionOrder) = Cardinality(Declared)
        /\ ToSet(executionOrder) = Declared
        /\ \A i \in DOMAIN executionOrder :
              \A d \in DependsOn(executionOrder[i]) :
                  \E j \in 1..(i - 1) : executionOrder[j] = d

\* The sort has reordered an acyclic graph declared with a dependent first.
C3_Witness ==
    /\ dags
    /\ mode = "seq"
    /\ Acyclic
    /\ Len(nodes) = MaxNodes
    /\ executionOrder # nodes
    /\ Len(edges) = MaxEdges

\* C4: on a graph with a dependency cycle executeParallel never resolves, it
\* terminates by rejecting, and unless a handler threw it rejects with the
\* circular-dependency error, raised when no node is ready and none in flight.
C4_CycleRejected ==
    /\ []((dags /\ mode = "par" /\ ~Acyclic) => pc # "returned")
    /\ []((dags /\ mode = "par" /\ ~Acyclic /\ pc = "rejected" /\ ~threw)
            => error.kind = "cyclic")
    /\ []((mode = "par" /\ pc = "rejected" /\ error.kind = "cyclic")
            => inProgress = {} /\ ReadyNodes = <<>>)
    /\ ((dags /\ mode = "par" /\ pc = "running" /\ ~Acyclic) ~> (pc = "rejected"))

\* executeParallel completed a node of a cyclic graph and then rejected with
\* the circular-dependency error.
C4_Witness ==
    /\ mode = "par"
    /\ pc = "rejected"
    /\ error.kind = "cyclic"
    /\ ~Acyclic
    /\ completed # {}

\* C5: when the handler awaited by executeDAG throws, the node is 'failed'
\* with its error recorded, the graph is 'failed', and executeDAG rejects with
\* the handler's error and returns no results map.
C5_HandlerFailureRejects ==
    (lastSettled.kind = "threw" /\ lastSettled.run = runId /\ mode = "seq") =>
        /\ nodeState[lastSettled.node] = "failed"
        /\ nodeError[lastSettled.node] = "handler"
        /\ dagState = "failed"
        /\ pc = "rejected"
        /\ error = [kind |-> "handler", node |-> lastSettled.node]
        /\ returned = <<>>

\* A handler threw in executeDAG after another node had committed its result.
C5_Witness ==
    /\ lastSettled.kind = "threw"
    /\ lastSettled.run = runId
    /\ mode = "seq"
    /\ results # <<>>

\* C6: after a handler failure in either mode the graph is marked 'failed',
\* and once the run has rejected no handler is started and no node state or
\* dag.results entry changes.
C6_FailFast ==
    [][/\ (dags' /\ pc' = "rejected" /\ error'.kind = "handler") => dagState' = "failed"
       /\ (pc = "rejected" /\ error.kind = "handler" /\ runId' = runId)
             => /\ nodeState' = nodeState
                /\ results' = results
                /\ inflight' \subseteq inflight]_vars

C8_EdgesMirrorDependencies ==
    dags => \A a \in Declared : \A b \in Declared :
        /\ ([from |-> a, to |-> b] \in ToSet(edges)) <=> (a \in DependsOn(b))
        /\ (a \in DependsOn(b)) <=> (b \in ToSet(dependents[a]))

\* A graph with MaxEdges distinct edges between declared nodes is registered.
C8_Witness ==
    /\ dags
    /\ Len(edges) = MaxEdges
    /\ Cardinality(ToSet(edges)) = MaxEdges
    /\ \A i \in DOMAIN edges : edges[i].from \in Declared /\ edges[i].to \in Declared

\* C9: in every reachable state a node has an entry in dag.results iff its
\* state is 'completed'.
C9_ResultIffCompleted ==
    \A n \in Declared : (n \in DOMAIN results) <=> (nodeState[n] = "completed")

\* C10: while executeParallel runs, every node it has in flight belongs to the
\* wave being awaited: the nodes of all earlier waves have completed.
C10_WaveCommitsBeforeNext ==
    (mode = "par" /\ pc = "running") =>
        /\ inProgress \subseteq ToSet(ready)
        /\ {a.node : a \in Awaited} \subseteq ToSet(ready)

\* A later wave is in flight after an earlier wave of two nodes completed.
C10_Witness ==
    /\ mode = "par"
    /\ pc = "running"
    /\ Awaited # {}
    /\ Cardinality(completed) >= 2

\* The results map executeDAG computes on the registered graph: the loop of
\* lines 136-138 over the topological order, every handler returning.
RECURSIVE RunSequential(_, _)
RunSequential(order, acc) ==
    IF order = <<>> THEN acc
    ELSE LET nodeId == Head(order)
             inputs == [d \in ToSet(dependencies[nodeId]) |->
                           IF d \in DOMAIN acc THEN acc[d] ELSE Undefined]
         IN RunSequential(Tail(order), MapSet(acc, nodeId, NodeResult(nodeId, inputs)))

SequentialResults == RunSequential(topologicalSort(nodes, dependencies), <<>>)

\* C11: on an acyclic graph whose handlers all return, a resolved
\* executeParallel leaves in dag.results exactly the map a resolved executeDAG
\* leaves: the same keys, each with the same value.
C11_ParallelRefinesSequential ==
    (dags /\ Acyclic /\ pc = "returned" /\ mode \in {"seq", "par"})
        => results = SequentialResults

C11_Witness ==
    /\ dags /\ Acyclic /\ pc = "returned" /\ mode = "par"
    /\ Cardinality(Declared) >= 3
    /\ \E n \in Declared : Len(dependencies[n]) >= 2
    /\ results = SequentialResults

\* ---------------------------------------------------------------- swarm
\* The number of results of rs that serialize like rs[i].
Share(rs, i) == Cardinality({j \in DOMAIN rs : Serialize(rs[j]) = Serialize(rs[i])})
LargestShare(rs) == CHOOSE c \in 0..Len(rs) :
                        /\ \A i \in DOMAIN rs : Share(rs, i) <= c
                        /\ rs = <<>> \/ \E i \in DOMAIN rs : Share(rs, i) = c
Called == consensusArgs # NoArgs

\* C12: for a non-empty list of results, achieveConsensus returns total = the
\* number of results, votes = the largest number of results sharing one
\* serialized value, confidence = votes / total, and achieved exactly when
\* votes / total >= threshold.
C12_ConsensusCounts ==
    (Called /\ consensusArgs.results # <<>>) =>
        LET rs == consensusArgs.results
        IN /\ consensus.total = Len(rs)
           /\ consensus.votes = LargestShare(rs)
           /\ consensus.confidence = [nan |-> FALSE, num |-> consensus.votes,
                                      den |-> consensus.total]
           /\ consensus.achieved <=>
                  (consensus.votes * 10 >= consensusArgs.threshold * consensus.total)

\* A 2-to-1 split at threshold 0.7 is not a consensus.
C12_Witness ==
    /\ Called
    /\ Len(consensusArgs.results) = 3
    /\ consensusArgs.threshold = 7
    /\ consensus.votes = 2 /\ consensus.total = 3
    /\ ~consensus.achieved

\* The first index whose value has the largest share.
EarliestLargest(rs) == CHOOSE i \in DOMAIN rs :
                           /\ Share(rs, i) = LargestShare(rs)
                           /\ \A j \in 1..(i - 1) : Share(rs, j) < LargestShare(rs)

\* C13: when several values tie for the largest vote count, 'result' is the
\* tied value whose first occurrence in the results list is the earliest.
C13_TieGoesToEarliest ==
    (Called /\ consensusArgs.results # <<>>) =>
        consensus.result = consensusArgs.results[EarliestLargest(consensusArgs.results)]

\* A 2-to-2 tie in which the other value reaches two votes first.
C13_Witness ==
    /\ Called
    /\ Len(consensusArgs.results) = 4
    /\ consensusArgs.results[1] = consensusArgs.results[4]
    /\ consensusArgs.results[2] = consensusArgs.results[3]
    /\ consensusArgs.results[1] # consensusArgs.results[2]
    /\ consensus.votes = 2
    /\ consensus.result = consensusArgs.results[1]

\* C14: every ConsensusResult, the one of an empty results list included, has
\* 0 <= votes <= total and a confidence that is a number in [0, 1].
C14_ConfidenceInRange ==
    Called =>
        /\ 0 <= consensus.votes /\ consensus.votes <= consensus.total
        /\ ~consensus.confidence.nan
        /\ 0 <= consensus.confidence.num
        /\ consensus.confidence.num <= consensus.confidence.den

\* C15: a mesh dispatch whose votes do not reach the threshold is not an
\* error: executeTask resolves with success = true and a result with
\* achieved = false, the swarm is 'idle' again, tasksCompleted is incremented
\* and consensusReached is left unchanged.
C15_NoConsensusIsNotAnError ==
    [][(phase = "mesh" /\ phase' # "mesh" /\ ~consensus'.achieved) =>
          /\ phase' = "resolved"
          /\ taskReturned'.success
          /\ taskReturned'.consensus = consensus'
          /\ swarmState' = "idle"
          /\ swarmMetrics'.tasksCompleted = swarmMetrics.tasksCompleted + 1
          /\ metrics'.tasksExecuted = metrics.tasksExecuted + 1
          /\ swarmMetrics'.consensusReached = swarmMetrics.consensusReached
          /\ metrics'.consensusReached = metrics.consensusReached]_vars

\* Three agents split 2 to 1 below the threshold.
C15_Witness ==
    /\ phase = "resolved"
    /\ topology = "mesh"
    /\ Len(agents) = 3
    /\ consensus.votes = 2
    /\ taskReturned.success
    /\ ~taskReturned.consensus.achieved
    /\ swarmState = "idle"
    /\ swarmMetrics = [tasksCompleted |-> 1, consensusReached |-> 0]

\* The step in which executeTask settles.
TaskSettles == ~Quiet /\ Quiet'

\* C16 (as stated): if the collaborator fails for a single agent during
\* executeTask, the dispatch fails: executeTask rejects, the swarm ends in
\* state 'error' and no result is returned.
C16_AgentFailureRejects ==
    [][(TaskSettles /\ failures' # {}) =>
          /\ phase' = "rejected"
          /\ swarmState' = "error"
          /\ ~taskReturned'.success]_vars

\* C16 (amended): a failure of the collaborator is caught inside
\* executeAgentTask: the call resolves with the fallback object and the
\* agent is 'ready' again, the dispatch goes on with that value, and
\* executeTask resolves with success = true and leaves the swarm 'idle'.
\* The only such dispatch that rejects is the hierarchical one over a roster
\* of a single agent whose decomposition call failed: the task then has no
\* worker and a TypeError is thrown.
C16_AgentFailureIsSwallowed ==
    [][/\ (failures' \ failures # {}) =>
              /\ phase' = phase
              /\ swarmState' = "executing"
              /\ \E c \in calls :
                    /\ calls' = calls \ {c}
                    /\ agentState'[c.agent] = "ready"
                    /\ slots'[c.slot] = Fallback(c.kind, c.agent)
       /\ (TaskSettles /\ failures' # {}) =>
              IF topology = "hierarchical" /\ Len(agents) = 1 /\ 0 \in failures'
              THEN phase' = "rejected" /\ swarmState' = "error" /\ taskError' = "TypeError"
              ELSE /\ phase' = "resolved"
                   /\ swarmState' = "idle"
                   /\ taskReturned'.success]_vars

\* A mesh, a star and a hierarchical dispatch that each resolved although a
\* call failed; here the mesh one, with two of three calls failed.
C16_Witness ==
    /\ phase = "resolved"
    /\ topology = "mesh"
    /\ Len(agents) = 3
    /\ Cardinality(failures) = 2
    /\ taskReturned.success
    /\ swarmState = "idle"

\* ------------------------------------------------------------- topology
Roster == ToSet(agents)
Size == Len(agents)
AfterCreate == swarms /\ lastOp = Returned("createSwarm")
AfterAdd == swarms /\ lastOp = Returned("addAgent")
\* The connection list of a names exactly the agents of S, each once.
ConnectedExactlyTo(a, S) ==
    ToSet(connections[a]) = S /\ Len(connections[a]) = Cardinality(S)

\* The topology rules of the specification.
DesignatedHub == IF coordinator # 0 THEN coordinator ELSE agents[1]
MeshRule == \A a \in Roster : ConnectedExactlyTo(a, Roster \ {a})
StarRule ==
    /\ ConnectedExactlyTo(DesignatedHub, Roster \ {DesignatedHub})
    /\ \A a \in Roster \ {DesignatedHub} : ConnectedExactlyTo(a, {DesignatedHub})
TreeLinks(i) ==
    (IF i > 0 THEN {(i - 1) \div 2} ELSE {}) \cup ({2 * i + 1, 2 * i + 2} \cap (0..(Size - 1)))
TreeRule ==
    \A i \in 0..(Size - 1) :
        ConnectedExactlyTo(IdAt(agents, i), {IdAt(agents, k) : k \in TreeLinks(i)})
RingRule ==
    \A i \in 0..(Size - 1) :
        ToSet(connections[IdAt(agents, i)]) =
            {IdAt(agents, (i - 1) % Size), IdAt(agents, (i + 1) % Size)}

\* C17: immediately after createSwarm returns, every agent's connections
\* follow the topology rule for the created roster (in a mesh of n agents each
\* agent lists all n-1 others; in a star the coordinator lists every spoke).
C17_ConnectedAtCreation ==
    (AfterCreate /\ agents # <<>>) =>
        /\ topology = "mesh" => MeshRule
        /\ topology = "star" => StarRule
        /\ topology = "hierarchical" => TreeRule
        /\ topology = "ring" => RingRule

\* C18: after addAgent on a star swarm the hub (the designated coordinator, or
\* the first agent when none is designated) is connected to exactly all other
\* agents, and every other agent to the hub and to nothing else.
C18_StarAfterAddAgent == (AfterAdd /\ topology = "star") => StarRule

\* The coordinator is not the first agent.
C18_Witness ==
    /\ AfterAdd /\ topology = "star"
    /\ coordinator = 2
    /\ Size >= 3
    /\ connections[1] = <<2>>
    /\ Len(connections[2]) = Size - 1

\* C19: after addAgent on a hierarchical swarm of n agents, the agent at index
\* i is connected to exactly its parent at index floor((i-1)/2) when i > 0 and
\* its children at indices 2i+1 and 2i+2 when those are below n.
C19_TreeAfterAddAgent == (AfterAdd /\ topology = "hierarchical") => TreeRule

\* Four agents: the one at index 1 has its parent and one child.
C19_Witness ==
    /\ AfterAdd /\ topology = "hierarchical"
    /\ Size = 4
    /\ connections[IdAt(agents, 0)] = <<IdAt(agents, 1), IdAt(agents, 2)>>
    /\ connections[IdAt(agents, 1)] = <<IdAt(agents, 0), IdAt(agents, 3)>>
    /\ connections[IdAt(agents, 3)] = <<IdAt(agents, 1)>>

\* C20: after addAgent on a ring swarm of n >= 1 agents, the set of
\* connections of the agent at index i is exactly the agents at indices
\* (i-1) mod n and (i+1) mod n.
C20_RingAfterAddAgent == (AfterAdd /\ topology = "ring") => RingRule

\* The first agent of a ring of three wraps around to the last.
C20_Witness ==
    /\ AfterAdd /\ topology = "ring"
    /\ Size = 3
    /\ connections[IdAt(agents, 0)] = <<IdAt(agents, 2), IdAt(agents, 1)>>


\* -------------------------------------------------------------------- C21
\* C21: in every reachable state the roster of a registered swarm holds at most
\* the swarm's maxAgents agents, whether they came from the roles of createSwarm
\* or from addAgent.
C21_RosterWithinCapacity == swarms => Len(agents) <= swarmConfig.maxAgents

\* -------------------------------------------------------------------- C22
FailedAdd == lastOp' # lastOp /\ lastOp'.op = "addAgent" /\ lastOp'.error # "none"

\* C22: when addAgent fails (unknown swarm id, or swarm at capacity) the swarm
\* registry, the roster, every agent's connections and all metrics are the same
\* as before the call.
C22_FailedAddAgentMutatesNothing ==
    [][FailedAdd => UNCHANGED <<swarmVars, agentVars>>]_vars

C22_Witness ==
    /\ swarms
    /\ lastOp = Threw("addAgent", "Swarm is at maximum capacity")
    /\ Len(agents) >= swarmConfig.maxAgents
    /\ Len(agents) > 0

\* -------------------------------------------------------------------- C23
InRange(threshold) == threshold \in 1..10

Hub == DesignatedHub
NonHub == SelectSeq(agents, LAMBDA a : a # Hub)
\* A fallback result names the agent whose call failed; a gateway reply names
\* nobody.  Value v can be the result of a call of the given kind by agent a.
ResultOf(v, a, kinds) == v.agentId # 0 => v.agentId = a /\ v.text \in kinds
CallsOf(cs, a, kinds) == {c \in cs : c.agent = a /\ c.kind \in kinds}
StarDispatched == phase # "spokes" /\ phase' = "spokes"
StarWaiting == phase = "spokes" /\ phase' = "spokes"
StarAggregates == phase = "spokes" /\ phase' = "hub"

\* C24: in star dispatch every spoke executes the original task exactly once,
\* the hub never executes it, and the hub's aggregate task starts only after
\* every spoke has finished and receives one result per spoke in roster
\* order, whatever the order in which the spokes completed.
C24_StarDispatchOrder ==
    [][(topology = "star" /\ agents # <<>>) =>
          /\ StarDispatched =>
                \A a \in Roster : Cardinality(CallsOf(calls', a, {"task"}))
                                      = IF a = Hub THEN 0 ELSE 1
          /\ StarWaiting => calls' \subseteq calls
          /\ CallsOf(calls', Hub, {"task"}) = {}
          /\ StarAggregates =>
                /\ calls = {}
                /\ \E c \in calls' :
                      /\ calls' = {c}
                      /\ c.agent = Hub /\ c.kind = "aggregate"
                      /\ Len(c.input) = Len(NonHub)
                      /\ \A i \in DOMAIN NonHub :
                            ResultOf(c.input[i], NonHub[i], {"task"})]_vars

C24_Witness ==
    /\ topology = "star" /\ phase = "hub" /\ Len(agents) = 3
    /\ \E c \in calls :
          /\ c.kind = "aggregate" /\ c.agent = Hub
          /\ c.input = <<Fallback("task", NonHub[1]), Fallback("task", NonHub[2])>>

\* -------------------------------------------------------------------- C25
Subtasks == {"subtask", "task"}
Decomposing == phase = "decompose"
Assigns == phase = "decompose" /\ phase' = "workers"
Synthesizes == phase = "workers" /\ phase' = "synthesize"
RoundRobin(i) == NonHub[((i - 1) % Len(NonHub)) + 1]

\* C25: in hierarchical dispatch with at least one non-coordinator agent the
\* coordinator's decompose task completes before any subtask starts, subtask
\* number i goes to the non-coordinator agent at index i mod w, never to the
\* coordinator, and the synthesize task starts only after all subtasks have
\* finished and receives their results in subtask order.
C25_HierarchicalDispatchOrder ==
    [][(topology = "hierarchical" /\ Len(agents) >= 2) =>
          /\ Decomposing => \A c \in calls : c.kind = "decompose" /\ c.agent = Hub
          /\ Assigns =>
                /\ calls = {} /\ 0 \in DOMAIN slots
                /\ Cardinality(calls') = subtasks'
                /\ \A c \in calls' :
                      /\ c.kind \in Subtasks /\ c.slot \in 1..subtasks'
                      /\ c.agent # Hub /\ c.agent = RoundRobin(c.slot)
          /\ Synthesizes =>
                /\ calls = {}
                /\ \E c \in calls' :
                      /\ calls' = {c}
                      /\ c.agent = Hub /\ c.kind = "synthesize"
                      /\ Len(c.input) = subtasks
                      /\ \A i \in 1..subtasks :
                            ResultOf(c.input[i], RoundRobin(i), Subtasks)]_vars

C25_Witness ==
    /\ topology = "hierarchical" /\ phase = "synthesize" /\ Len(agents) = 3
    /\ subtasks = 2
    /\ \E c \in calls :
          /\ c.kind = "synthesize" /\ c.agent = Hub
          /\ c.input = <<Fallback("subtask", NonHub[1]), Fallback("subtask", NonHub[2])>>
\* -------------------------------------------------------------------- C26
Occurs(arr, target) == \E i \in DOMAIN arr : arr[i] = target
\* The outcome the searches are specified to have.
Correct(call, result) ==
    /\ result.returns
    /\ IF Occurs(call.data, call.target)
       THEN /\ result.found
            /\ InArray(call.data, result.index)
            /\ call.data[result.index + 1] = call.target
       ELSE ~result.found /\ result.index = -1
Ran(algorithm) == searchCall.algorithm = algorithm

\* C26: for every sorted array and target binarySearch returns found = true
\* with an index holding the target when the target occurs in the array, and
\* found = false with index -1 when it does not, the empty array included.
C26_BinarySearchCorrect == Ran("binary-search") => Correct(searchCall, searchResult)

C26_Witness ==
    /\ Ran("binary-search")
    /\ Len(searchCall.data) = MaxLen
    /\ searchResult.found /\ searchResult.index = MaxLen - 1
    /\ searchResult.comparisons > 1

\* -------------------------------------------------------------------- C27
CeilLog2(n) == CHOOSE k \in 0..n : 2 ^ k >= n /\ (k = 0 \/ 2 ^ (k - 1) < n)

\* C27: on a sorted array of length n >= 1 the comparisons count reported by
\* binarySearch is at most ceil(log2 n) + 1, the target present or absent.
C27_BinarySearchComparisons ==
    (Ran("binary-search") /\ Len(searchCall.data) >= 1)
        => searchResult.comparisons <= CeilLog2(Len(searchCall.data)) + 1

C27_Witness ==
    /\ Ran("binary-search")
    /\ Len(searchCall.data) = MaxLen
    /\ ~searchResult.found
    /\ searchResult.comparisons = CeilLog2(MaxLen) + 1

\* -------------------------------------------------------------------- C28
\* C28: for every sorted array jumpSearch returns found = true with an index
\* holding the target when the target occurs anywhere in the array, in any
\* block, and found = false otherwise.
C28_JumpSearchCorrect == Ran("jump-search") => Correct(searchCall, searchResult)

\* -------------------------------------------------------------------- C29
\* C29: for every sorted integer array and target interpolationSearch returns
\* found = true with a correct index when the target occurs and found = false
\* otherwise, also when low = high or arr[low] = arr[high].
C29_InterpolationSearchCorrect ==
    Ran("interpolation-search") => Correct(searchCall, searchResult)

\* -------------------------------------------------------------------- C30
\* The least total given weight of a path of at most k edges from source to
\* each node (Infinity when there is none).
RECURSIVE Least(_, _, _)
Least(links, source, k) ==
    IF k = 0 THEN [v \in Vertices |-> IF v = source THEN 0 ELSE Infinity]
    ELSE LET before == Least(links, source, k - 1)
             Into(v) == {Plus(before[links[i].from], links[i].weight) :
                            i \in {j \in DOMAIN links : links[j].to = v}}
         IN [v \in Vertices |->
                CHOOSE d \in {before[v]} \cup Into(v) :
                    \A other \in {before[v]} \cup Into(v) : d <= other]
Solved == pathsComputed > 0

\* C30: with non-negative integer weights, zero included, solveBMSSP reports
\* for every target t other than the source s the least total weight of a
\* directed path from s to t, and Infinity when there is no path.
C30_ShortestPaths ==
    Solved => \A t \in Vertices \ {pathCall.source} :
                 pathResult.paths[<<pathCall.source, t>>]
                     = Least(pathCall.links, pathCall.source, MaxVertices - 1)[t]
\* -------------------------------------------------------------------- C31
CspCalled == cspCall # NoCsp
\* The assignments of domain values that satisfy every constraint.
Candidates(problem) ==
    {f \in [CspVariables -> 1..MaxDomain] : \A v \in CspVariables : f[v] \in ToSet(problem.domains[v])}
Satisfying(problem) ==
    {f \in Candidates(problem) :
        \A i \in DOMAIN problem.constraints : check(problem.constraints[i], f)}

\* C31: solveConstraint returns solved = true if and only if some assignment
\* of domain values satisfies all constraints; the assignment returned with
\* solved = true is such an assignment, and it is null with solved = false.
C31_SolvedIffSatisfiable ==
    CspCalled =>
        /\ cspResult.solved <=> Satisfying(cspCall) # {}
        /\ cspResult.solved =>
              ~cspResult.assignment.null /\ cspResult.assignment.values \in Satisfying(cspCall)
        /\ ~cspResult.solved => cspResult.assignment.null

C31_Witness ==
    /\ CspCalled /\ cspResult.solved
    /\ Len(cspCall.constraints) = MaxConstraints
    /\ Cardinality(Satisfying(cspCall)) = 1
    /\ \E v \in CspVariables : cspResult.assignment.values[v] # cspCall.domains[v][1]

\* -------------------------------------------------------------------- C32
DomainPosition(domain, value) == CHOOSE k \in DOMAIN domain :
                              domain[k] = value /\ \A j \in 1..(k - 1) : domain[j] # value
\* f comes before g: at the first variable where they differ, the value of f
\* stands earlier in that variable's domain list.
Before(problem, f, g) ==
    \E v \in CspVariables :
        /\ \A u \in 1..(v - 1) : f[u] = g[u]
        /\ DomainPosition(problem.domains[v], f[v]) < DomainPosition(problem.domains[v], g[v])

\* C32: on a satisfiable problem the assignment returned is the first
\* satisfying assignment in lexicographic order, variables in their given
\* order and values by their position in each domain list.
C32_FirstInLexicographicOrder ==
    (CspCalled /\ Satisfying(cspCall) # {}) =>
        \A g \in Satisfying(cspCall) \ {cspResult.assignment.values} :
            Before(cspCall, cspResult.assignment.values, g)

C32_Witness ==
    /\ CspCalled /\ cspResult.solved
    /\ Cardinality(Satisfying(cspCall)) >= 2
    /\ \E v \in CspVariables : cspCall.domains[v] = <<2, 1>> /\ cspResult.assignment.values[v] = 2
\* -------------------------------------------------------------------- C33
\* C33: jumpSearch terminates on every sorted array and every target, also
\* when the target is larger than the last element of the first block.
C33_JumpSearchTerminates == Ran("jump-search") => searchResult.returns
\* -------------------------------------------------------------------- C34
Occurrences(data, x) == Cardinality({k \in DOMAIN data : data[k] = x})

\* C34: the point query of the sketch built from data never underestimates:
\* query(x) is at least the number of occurrences of x in data.
C34_NeverUnderestimates ==
    sketchCall.called => sketchResult >= Occurrences(sketchCall.data, sketchCall.item)

C34_Witness ==
    /\ sketchCall.called
    /\ Occurrences(sketchCall.data, sketchCall.item) = 2
    /\ sketchResult = 3
    /\ sketchCall.item.text = <<97, 98>>
\* -------------------------------------------------------------------- C35
\* The run stopped on the test gradNorm < tolerance of its last iteration.
StoppedOnTolerance ==
    gradNorms # <<>> /\ gradNorms[Len(gradNorms)] < optCall.tolerance

\* C35: solveOptimization performs at most maxIterations update steps, and
\* converged is true if and only if the run stopped because the gradient norm
\* fell below the tolerance, also on the last permitted iteration.
C35_ConvergedIffBelowTolerance ==
    optResult.returned =>
        /\ Len(gradNorms) <= optCall.maxIterations
        /\ optResult.converged <=> StoppedOnTolerance
\* -------------------------------------------------------------------- C36
Failed(k) == outcomes[k].kind \in Failures
Settled36 == fetchPhase \in {"returned", "threw"}
\* The delays the call is specified to have slept after n failed attempts
\* that were each followed by another attempt.
Backoff(n) == [k \in 1..n |-> client.retryDelay * (2 ^ (k - 1))]

\* C36: a _fetch call makes at most R = retries attempts, returns the body of
\* the first attempt that succeeds without attempting again, sleeps
\* retryDelay * 2^k after failed attempt k only when another attempt follows,
\* and throws only after exactly R consecutive failed attempts.
C36_RetryDiscipline ==
    /\ Len(outcomes) <= client.retries
    /\ \A k \in 1..(Len(outcomes) - 1) : Failed(k)
    /\ fetchPhase = "returned" =>
          /\ outcomes[Len(outcomes)].kind = "ok"
          /\ fetchResult.body = outcomes[Len(outcomes)].body
    /\ Settled36 => sleeps = Backoff(Len(outcomes) - 1)
    /\ fetchPhase = "threw" =>
          Len(outcomes) = client.retries /\ \A k \in DOMAIN outcomes : Failed(k)
\* -------------------------------------------------------------------- C37
\* The nodes n depends on, directly or through other nodes.
RECURSIVE Upstream(_, _)
Upstream(frontier, seen) ==
    LET next == UNION {DependsOn(m) : m \in frontier} \ seen
    IN IF next = {} THEN seen ELSE Upstream(next, seen \cup next)
OnCycle(n) == n \in Upstream({n}, {})
CyclicRun == dags /\ mode = "seq" /\ ~Acyclic

\* C37: on a graph with a dependency cycle executeDAG terminates by rejecting
\* and leaves the graph 'failed', and in either mode the handler of a node on
\* a cycle is never invoked: such a node is never running nor completed.
C37_CycleFailsSequentialRun ==
    /\ []((CyclicRun /\ pc # "running") => pc = "rejected" /\ dagState = "failed")
    /\ []((dags /\ ~Acyclic) =>
             /\ \A a \in inflight : ~OnCycle(a.node)
             /\ \A n \in Declared :
                   OnCycle(n) => nodeState[n] \notin {"running", "completed"})
    /\ ((CyclicRun /\ pc = "running") ~> (pc = "rejected"))

\* executeDAG rejected on the dependency check of a cycle node after it had
\* completed the node outside the cycle.
C37_Witness ==
    /\ CyclicRun
    /\ pc = "rejected"
    /\ dagState = "failed"
    /\ error.kind = "dependency"
    /\ \E n \in Declared : ~OnCycle(n) /\ nodeState[n] = "completed"
    /\ \E n \in Declared : OnCycle(n) /\ DependsOn(n) # {n}
\* -------------------------------------------------------------------- C38
InFlightOn(a) == {c \in calls : c.agent = a}

\* C38: an agent's state is 'busy' exactly while at least one executeAgentTask
\* on it is in flight and 'ready' otherwise, also when hierarchical dispatch
\* gives several subtasks to the same worker at once.
C38_BusyIffInFlight ==
    \A a \in Roster : (agentState[a] = "busy") <=> (InFlightOn(a) # {})
\* -------------------------------------------------------------------- C39
Lists(a, b) == b \in ToSet(connections[a])
NoRepeat(list) == Len(list) = Cardinality(ToSet(list))

\* C39: for every topology and roster size n >= 1, after
\* updateTopologyConnections the connection relation is symmetric, no agent
\* lists itself and no connections list holds the same agent twice.
C39_ConnectionsSymmetricSimple ==
    AfterAdd =>
        \A a \in Roster :
            /\ ~Lists(a, a)
            /\ NoRepeat(connections[a])
            /\ \A b \in Roster : Lists(a, b) <=> Lists(b, a)
\* -------------------------------------------------------------------- C40
\* A hierarchical swarm whose roster is the coordinator alone.
CoordinatorOnly == swarms /\ topology = "hierarchical" /\ Len(agents) = 1
\* The awaited decompose call has settled and executeHierarchical goes on.
Decomposed == phase = "decompose" /\ phase' # "decompose"
\* The decomposition carries an empty subtasks list.
NoSubtasks == slots[0].subtasks = 0
SynthesisPending == \E c \in calls : c.kind = "synthesize"

\* C40: on a hierarchical swarm whose only agent is the coordinator, once the
\* coordinator has run 'decompose' and the decomposition has at least one
\* subtask or no subtasks list, the dispatch rejects, the swarm is left in
\* state 'error', executeTask returns nothing and no synthesize call is made.
C40_LoneCoordinatorRejects ==
    [][(CoordinatorOnly /\ Decomposed /\ ~NoSubtasks) =>
          /\ agentTasks[Hub] >= 1
          /\ phase' = "rejected"
          /\ swarmState' = "error"
          /\ taskReturned' = NoReturn
          /\ calls' = {} /\ ~SynthesisPending'
          /\ agentTasks' = agentTasks]_vars

C40_Witness ==
    /\ CoordinatorOnly /\ coordinator = agents[1]
    /\ phase = "rejected" /\ swarmState = "error" /\ taskError = "TypeError"
    /\ slots[0] = Plan(1)
====
